---------------------------- MODULE Spec2Model ----------------------------
(***************************************************************************)
(* A model of the pilidium-modpack dashboard generator                     *)
(* (src/generate_modlist.py) and of its data fetcher                       *)
(* (src/fetch_mod_data.py).                                                *)
(*                                                                         *)
(* Python strings are TLA+ strings; a character is a string of length 1   *)
(* (SubSeq(s, i, i)).  Byte streams are sequences of integers 0..255.     *)
(* Each collector of the program has its own variables and its own        *)
(* specification; a specification keeps the variables of the other         *)
(* collectors at their idle values.                                        *)
(***************************************************************************)
EXTENDS Integers, Sequences, FiniteSets, TLC

VARIABLES
    \* collect_server_properties
    spExists,      \* os.path.isfile(SERVER_PROPERTIES)
    spFile,        \* raw.splitlines(): the lines of server.properties
    spIdx,         \* index of the next line the for loop takes
    spProps,       \* props
    spChanged,     \* changed
    spPc,          \* "start" | "loop" | "done"
    \* collect_gamerules, _read_level_dat
    lvExists,      \* os.path.isfile(LEVEL_DAT)
    lvGzipOk,      \* gzip.open(path).read() succeeds
    lvTree,        \* the tree the file was written from
    lvStream,      \* the decompressed bytes of the file
    lvRoot,        \* the outcome of _read_level_dat: raised, or the root and the position reached
    grGameRules,   \* game_rules
    grKeys,        \* sorted(game_rules.keys())
    grIdx,         \* index of the next key the for loop takes
    grRules,       \* rules
    grChanged,     \* changed
    grPc,          \* "start" | "read" | "keys" | "loop" | "done" | "raised"
    \* collect_client_mods, collect_server_mods, ai_get_mod_info
    clientFiles,   \* sorted(os.listdir(CLIENT_MODS))
    indexed,       \* indexed: file name -> name and version of the .index metadata
    serverFiles,   \* sorted(os.listdir(SERVER_MODS))
    aiCacheFile,   \* the file AI_CACHE_FILE
    ollama_ok,     \* _ollama_ok: "None" | "True" | "False"
    aiCalls,       \* number of calls of ai_get_mod_info
    aiProbes,      \* number of requests to /api/tags
    aiTags,        \* what /api/tags answered, NotAsked before the request
    aiGenerates,   \* number of requests to /api/generate
    aiLast,        \* the last call of ai_get_mod_info: its key, what it returned, and the
                   \* field names of the object a generated response decoded to
    mdIdx,         \* index of the next jar the for loop takes
    clientMods,    \* mods of collect_client_mods
    serverMods,    \* mods of collect_server_mods
    mdPc,          \* "client" | "server" | "done" | "packs" | "packs_done" | "raised"
    packDir,       \* DATAPACK_DIR: whether it is a directory, and its sorted entries
    datapacks,     \* datapacks of collect_datapacks
    \* collect_players
    usercacheFile, \* the file USERCACHE
    uuid_to_name,  \* uuid_to_name
    statsFiles,    \* the files of PLAYER_STATS: uuid -> its counters, or StatsUnreadable
    plError,       \* the exception that ended collect_players, "" if none
    plUuids,       \* sorted(all_uuids)
    plIdx,         \* index of the next element the running for loop takes
    plJoined,      \* players as built by the loop over the uuids
    players,       \* players
    seen,          \* seen
    seenKeys,      \* the keys of seen, in the order of their insertion
    plPc,          \* "load" | "build" | "dedup" | "done" | "raised"
    \* main of fetch_mod_data.py
    ftOutput,      \* the file OUTPUT_FILE
    ftIndexDir,    \* sorted(os.listdir(CLIENT_INDEX))
    ftServerDir,   \* sorted(os.listdir(SERVER_MODS))
    ftPackDir,     \* sorted(os.listdir(DATAPACK_DIR)), with os.path.isdir of each entry
    ftConfigDirs,  \* the relative paths of the files below CLIENT_CONFIG and SERVER_CONFIG
    ftHitLists,    \* the registry: the ranked lists of hits a search can come back with
    ftData,        \* data
    client_mods,   \* client_mods
    server_mods,   \* server_mods
    ftMissing,     \* missing, then still_missing
    ftPacks,       \* packs
    ftIdx,         \* index of the next element the running for loop takes
    has_ollama,    \* has_ollama
    ftLog,         \* the requests sent so far, in order, each with its outcome
    ftError,       \* the exception that ended the run, "" if none
    ftPc,          \* "load" | "client" | "server" | "manual" | "batch" | "missing" |
                   \* "ollama" | "datapacks" | "save" | "saved" | "raised"
    \* collect_configs
    cfDir,         \* config_dir: whether it is a directory, and the relative paths of
                   \* its files in the order os.walk yields them
    cfIdx,         \* index of the next file of the walk
    configs,       \* configs: owner -> the relative paths listed under it, in order
    cfPc,          \* "start" | "walk" | "done"
    \* ----- lookup_mod_info -----
    lkName,        \* the name lookup_mod_info is called with
    lkResult,      \* what the call returned
    lkPrev,        \* name and result of the call before this one
    lkPc,          \* "call" | "done"
    \* ----- _modrinth_get and the clock, in ticks -----
    thNow,         \* time.time()
    thLast,        \* _last_modrinth_call
    thSent,        \* when the last request was sent, NoTime before the first
    thPrevSent,    \* when the request before it was sent
    thDone,        \* when the last call returned, NoTime before the first return
    thCalls,       \* number of calls so far
    thPc           \* "idle" | "sent" | "reading"

spVars == <<spExists, spFile, spIdx, spProps, spChanged, spPc>>

grVars == <<lvExists, lvGzipOk, lvTree, lvStream, lvRoot,
            grGameRules, grKeys, grIdx, grRules, grChanged, grPc>>

mdVars == <<clientFiles, indexed, serverFiles, aiCacheFile, ollama_ok, aiCalls,
            aiProbes, aiTags, aiGenerates, aiLast, mdIdx, clientMods, serverMods, mdPc,
            packDir, datapacks>>

plVars == <<usercacheFile, uuid_to_name, statsFiles, plError, plUuids, plIdx, plJoined, players,
            seen, seenKeys, plPc>>

ftVars == <<ftOutput, ftIndexDir, ftServerDir, ftPackDir, ftConfigDirs, ftHitLists, ftData, client_mods,
            server_mods, ftMissing, ftPacks, ftIdx, has_ollama, ftLog, ftError, ftPc>>

cfVars == <<cfDir, cfIdx, configs, cfPc>>

lkVars == <<lkName, lkResult, lkPrev, lkPc>>

thVars == <<thNow, thLast, thSent, thPrevSent, thDone, thCalls, thPc>>

vars == <<spVars, grVars, mdVars, plVars, ftVars, cfVars, lkVars, thVars>>

\* the variables a collector leaves alone
exceptSp == <<grVars, mdVars, plVars, ftVars, cfVars, lkVars, thVars>>

exceptGr == <<spVars, mdVars, plVars, ftVars, cfVars, lkVars, thVars>>

exceptMd == <<spVars, grVars, plVars, ftVars, cfVars, lkVars, thVars>>

exceptPl == <<spVars, grVars, mdVars, ftVars, cfVars, lkVars, thVars>>

exceptFt == <<spVars, grVars, mdVars, plVars, cfVars, lkVars, thVars>>

exceptCf == <<spVars, grVars, mdVars, plVars, ftVars, lkVars, thVars>>

exceptLk == <<spVars, grVars, mdVars, plVars, ftVars, cfVars, thVars>>

exceptTh == <<spVars, grVars, mdVars, plVars, ftVars, cfVars, lkVars>>

(***************************************************************************)
(* Strings                                                                 *)
(***************************************************************************)
CharAt(s, i) == SubSeq(s, i, i)

\* str.strip() removes leading and trailing whitespace
IsSpace(c) == c \in {" ", "\t"}

RECURSIVE LStrip(_)
LStrip(s) ==
    IF Len(s) > 0 /\ IsSpace(CharAt(s, 1)) THEN LStrip(SubSeq(s, 2, Len(s))) ELSE s

RECURSIVE RStrip(_)
RStrip(s) ==
    IF Len(s) > 0 /\ IsSpace(CharAt(s, Len(s))) THEN RStrip(SubSeq(s, 1, Len(s) - 1)) ELSE s

Strip(s) == RStrip(LStrip(s))

\* str.find(t) + 1: the 1-based index of the first occurrence of t in s, 0 if none
Find(s, t) ==
    LET hits == {i \in 1..(Len(s) - Len(t) + 1) : SubSeq(s, i, i + Len(t) - 1) = t}
    IN  IF hits = {} THEN 0 ELSE CHOOSE i \in hits : \A j \in hits : i <= j

\* t in s
Contains(s, t) == Find(s, t) # 0

StartsWith(s, t) == Len(t) <= Len(s) /\ SubSeq(s, 1, Len(t)) = t

EndsWith(s, t) == Len(t) <= Len(s) /\ SubSeq(s, Len(s) - Len(t) + 1, Len(s)) = t

(***************************************************************************)
(* server.properties: SERVER_DEFAULTS, SECRET_PROPERTIES,                  *)
(* collect_server_properties                                               *)
(***************************************************************************)
SERVER_DEFAULTS ==
     ("accepts-transfers" :> "false")
  @@ ("allow-flight" :> "false")
  @@ ("broadcast-console-to-ops" :> "true")
  @@ ("broadcast-rcon-to-ops" :> "true")
  @@ ("bug-report-link" :> "")
  @@ ("difficulty" :> "easy")
  @@ ("enable-code-of-conduct" :> "false")
  @@ ("enable-jmx-monitoring" :> "false")
  @@ ("enable-query" :> "false")
  @@ ("enable-rcon" :> "false")
  @@ ("enable-status" :> "true")
  @@ ("enforce-secure-profile" :> "true")
  @@ ("enforce-whitelist" :> "false")
  @@ ("entity-broadcast-range-percentage" :> "100")
  @@ ("force-gamemode" :> "false")
  @@ ("function-permission-level" :> "2")
  @@ ("gamemode" :> "survival")
  @@ ("generate-structures" :> "true")
  @@ ("generator-settings" :> "{}")
  @@ ("hardcore" :> "false")
  @@ ("hide-online-players" :> "false")
  @@ ("initial-disabled-packs" :> "")
  @@ ("initial-enabled-packs" :> "vanilla")
  @@ ("level-name" :> "world")
  @@ ("level-seed" :> "")
  @@ ("level-type" :> "minecraft\\:normal")
  @@ ("log-ips" :> "true")
  @@ ("management-server-allowed-origins" :> "")
  @@ ("management-server-enabled" :> "false")
  @@ ("management-server-host" :> "localhost")
  @@ ("management-server-port" :> "0")
  @@ ("management-server-secret" :> "")
  @@ ("management-server-tls-enabled" :> "true")
  @@ ("management-server-tls-keystore" :> "")
  @@ ("management-server-tls-keystore-password" :> "")
  @@ ("max-chained-neighbor-updates" :> "1000000")
  @@ ("max-players" :> "20")
  @@ ("max-tick-time" :> "60000")
  @@ ("max-world-size" :> "29999984")
  @@ ("motd" :> "A Minecraft Server")
  @@ ("network-compression-threshold" :> "256")
  @@ ("online-mode" :> "true")
  @@ ("op-permission-level" :> "4")
  @@ ("pause-when-empty-seconds" :> "-1")
  @@ ("player-idle-timeout" :> "0")
  @@ ("prevent-proxy-connections" :> "false")
  @@ ("query.port" :> "25565")
  @@ ("rate-limit" :> "0")
  @@ ("rcon.password" :> "")
  @@ ("rcon.port" :> "25575")
  @@ ("region-file-compression" :> "deflate")
  @@ ("require-resource-pack" :> "false")
  @@ ("resource-pack" :> "")
  @@ ("resource-pack-id" :> "")
  @@ ("resource-pack-prompt" :> "")
  @@ ("resource-pack-sha1" :> "")
  @@ ("server-ip" :> "")
  @@ ("server-port" :> "25565")
  @@ ("simulation-distance" :> "10")
  @@ ("spawn-protection" :> "16")
  @@ ("status-heartbeat-interval" :> "0")
  @@ ("sync-chunk-writes" :> "true")
  @@ ("text-filtering-config" :> "")
  @@ ("text-filtering-version" :> "0")
  @@ ("use-native-transport" :> "true")
  @@ ("view-distance" :> "10")
  @@ ("white-list" :> "false")

SECRET_PROPERTIES ==
    {"rcon.password", "management-server-secret", "management-server-tls-keystore-password"}

REDACTED == "********"

\* key, _, value = line.partition("="); key = key.strip(); value = value.strip()
PropKey(line) == Strip(SubSeq(line, 1, Find(line, "=") - 1))

PropRawValue(line) == Strip(SubSeq(line, Find(line, "=") + 1, Len(line)))

\* a mutant of PropValue: the redaction is left out
PropValueUnredacted(key, raw) == raw

\* a mutant of PropValue: the test "and value" is left out, an empty secret is
\* replaced by the placeholder as well
PropValueAlways(key, raw) == IF key \in SECRET_PROPERTIES THEN REDACTED ELSE raw

\* if key in SECRET_PROPERTIES and value: value = REDACTED
PropValue(key, raw) == IF key \in SECRET_PROPERTIES /\ raw # "" THEN REDACTED ELSE raw

\* a mutant of PropIsChanged: the test "default is not None" is left out, the
\* value is compared with the default the entry shows
PropIsChangedNoneAsDefault(key, value) ==
    value # (IF key \in DOMAIN SERVER_DEFAULTS THEN SERVER_DEFAULTS[key] ELSE "?")

\* is_changed = default is not None and value != default
PropIsChanged(key, value) == key \in DOMAIN SERVER_DEFAULTS /\ value # SERVER_DEFAULTS[key]

\* the entry built for one stripped key=value line
PropEntry(line) ==
    LET key   == PropKey(line)
        value == PropValue(key, PropRawValue(line))
    IN  [key     |-> key,
         value   |-> value,
         default |-> IF key \in DOMAIN SERVER_DEFAULTS THEN SERVER_DEFAULTS[key] ELSE "?",
         changed |-> PropIsChanged(key, value)]

\* the lines the loop skips: blank, comment, no "="
PropSkipped(line) == line = "" \/ StartsWith(line, "#") \/ ~Contains(line, "=")

\* props, changed, raw = [], [], ""; if not os.path.isfile(...): return
SP_Start ==
    /\ spPc = "start"
    /\ spPc' = IF spExists THEN "loop" ELSE "done"
    /\ UNCHANGED <<spExists, spFile, spIdx, spProps, spChanged>>
    /\ UNCHANGED exceptSp

\* one iteration of: for line in raw.splitlines()
SP_Line ==
    /\ spPc = "loop"
    /\ spIdx <= Len(spFile)
    /\ LET line == Strip(spFile[spIdx]) IN
         IF PropSkipped(line)
         THEN UNCHANGED <<spProps, spChanged>>
         ELSE /\ spProps' = Append(spProps, PropEntry(line))
              /\ spChanged' = IF PropEntry(line).changed
                              THEN Append(spChanged, PropEntry(line))
                              ELSE spChanged
    /\ spIdx' = spIdx + 1
    /\ UNCHANGED <<spExists, spFile, spPc>>
    /\ UNCHANGED exceptSp

\* return props, changed, raw
SP_Return ==
    /\ spPc = "loop"
    /\ spIdx > Len(spFile)
    /\ spPc' = "done"
    /\ UNCHANGED <<spExists, spFile, spIdx, spProps, spChanged>>
    /\ UNCHANGED exceptSp

\* Inputs: the lines of a properties file
MaxPropLines == 2

PropKeys == {"difficulty", "rcon.password", "custom-key"}

PropValues == {"", "easy", "hard", "s3cret"}

PropLineSet ==
    {k \o "=" \o v : k \in PropKeys, v \in PropValues}
    \cup {"  " \o k \o " = " \o v \o " " : k \in PropKeys, v \in PropValues}
    \cup {"", "# rcon.password=s3cret", "difficulty", "motd=a=b", "=hard"}

PropFiles == UNION {[1..n -> PropLineSet] : n \in 0..MaxPropLines}

SP_Init ==
    /\ spExists \in BOOLEAN
    /\ spFile \in (IF spExists THEN PropFiles ELSE {<<>>})
    /\ spIdx = 1
    /\ spProps = <<>>
    /\ spChanged = <<>>
    /\ spPc = "start"

SP_Idle ==
    /\ spExists = FALSE
    /\ spFile = <<>>
    /\ spIdx = 1
    /\ spProps = <<>>
    /\ spChanged = <<>>
    /\ spPc = "idle"

(***************************************************************************)
(* level.dat: _parse_nbt_payload, _read_level_dat                           *)
(*                                                                         *)
(* TLC compares two records field by field, in the order in which the     *)
(* field names first occur in the module: the fields k and t, which tell   *)
(* the kinds of values and of tags apart, occur here before the field v.   *)
(*                                                                         *)
(* A decoded Python value is a record [k, v]: k names the Python type.     *)
(* An int unpacked from 1, 2 or 4 bytes is an integer; one unpacked from   *)
(* 8 bytes ('>q') is kept as [hi, lo]: hi the signed upper 32 bits, lo the *)
(* two unsigned 16-bit halves of the lower 32 bits.  A float is kept as    *)
(* the bytes it was unpacked from.  A str decoded from the stream is the   *)
(* sequence of its code points; a dict is the sequence of its items in     *)
(* insertion order.                                                        *)
(***************************************************************************)
PyNone == [k |-> "none", v |-> 0]

PyInt(n) == [k |-> "int", v |-> n]

PyLong(q) == [k |-> "long", v |-> q]

PyFloat(b) == [k |-> "float", v |-> b]

PyBytes(b) == [k |-> "bytes", v |-> b]

PyStr(cps) == [k |-> "str", v |-> cps]

PyList(items) == [k |-> "list", v |-> items]

PyDict(items) == [k |-> "dict", v |-> items]

\* printable ASCII in code point order: 32..95, and 97..126 (a string literal
\* cannot hold the grave accent, code point 96)
AsciiLow == " !\"#$%&'()*+,-./0123456789:;<=>?@ABCDEFGHIJKLMNOPQRSTUVWXYZ[\\]^_"

AsciiHigh == "abcdefghijklmnopqrstuvwxyz{|}~"

\* the characters of s numbered from code on
RECURSIVE CodesFrom(_, _, _)
CodesFrom(s, i, code) ==
    IF i > Len(s) THEN <<>> ELSE (CharAt(s, i) :> code) @@ CodesFrom(s, i + 1, code + 1)

OrdTable == CodesFrom(AsciiLow, 1, 32) @@ CodesFrom(AsciiHigh, 1, 97)

\* ord(c) of a printable ASCII character
Ord(c) == OrdTable[c]

\* the code points of a string of printable ASCII characters
Cps(s) == [i \in 1..Len(s) |-> Ord(CharAt(s, i))]

\* result[cname] = value on a dict kept in insertion order
DictHas(d, name) == \E i \in 1..Len(d) : d[i].name = name

DictGet(d, name) == d[CHOOSE i \in 1..Len(d) : d[i].name = name].val

DictSet(d, name, val) ==
    IF DictHas(d, name)
    THEN [i \in 1..Len(d) |-> IF d[i].name = name THEN [name |-> name, val |-> val] ELSE d[i]]
    ELSE Append(d, [name |-> name, val |-> val])

\* struct.unpack of big-endian signed integers at position p of stream s
S8(b) == IF b >= 128 THEN b - 256 ELSE b

UnpackB(s, p) == S8(s[p])

UnpackH(s, p) == S8(s[p]) * 256 + s[p + 1]

UnpackI(s, p) == S8(s[p]) * 16777216 + s[p + 1] * 65536 + s[p + 2] * 256 + s[p + 3]

UnpackQ(s, p) ==
    [hi |-> UnpackI(s, p),
     lo |-> <<s[p + 4] * 256 + s[p + 5], s[p + 6] * 256 + s[p + 7]>>]

\* struct.unpack raises struct.error unless f.read(n) returned n bytes
Avail(s, p, n) == p + n - 1 <= Len(s)

\* f.read(n): at most n bytes from position p; everything left when n < 0
Read(s, p, n) ==
    IF n < 0 \/ p + n - 1 > Len(s) THEN SubSeq(s, p, Len(s)) ELSE SubSeq(s, p, p + n - 1)

\* bytes.decode('utf-8'): strict UTF-8, an error on any ill-formed sequence
IsCont(b) == b >= 128 /\ b <= 191

RECURSIVE Utf8Dec(_, _, _)
Utf8Dec(b, i, acc) ==
    IF i > Len(b) THEN [err |-> FALSE, val |-> acc]
    ELSE IF b[i] < 128
         THEN Utf8Dec(b, i + 1, Append(acc, b[i]))
    ELSE IF /\ b[i] >= 194 /\ b[i] <= 223
            /\ i + 1 <= Len(b) /\ IsCont(b[i + 1])
         THEN Utf8Dec(b, i + 2, Append(acc, (b[i] - 192) * 64 + (b[i + 1] - 128)))
    ELSE IF /\ b[i] >= 224 /\ b[i] <= 239
            /\ i + 2 <= Len(b) /\ IsCont(b[i + 1]) /\ IsCont(b[i + 2])
            /\ (b[i] = 224 => b[i + 1] >= 160)
            /\ (b[i] = 237 => b[i + 1] <= 159)
         THEN Utf8Dec(b, i + 3, Append(acc, (b[i] - 224) * 4096 + (b[i + 1] - 128) * 64
                                            + (b[i + 2] - 128)))
    ELSE IF /\ b[i] >= 240 /\ b[i] <= 244
            /\ i + 3 <= Len(b) /\ IsCont(b[i + 1]) /\ IsCont(b[i + 2]) /\ IsCont(b[i + 3])
            /\ (b[i] = 240 => b[i + 1] >= 144)
            /\ (b[i] = 244 => b[i + 1] <= 143)
         THEN Utf8Dec(b, i + 4, Append(acc, (b[i] - 240) * 262144 + (b[i + 1] - 128) * 4096
                                            + (b[i + 2] - 128) * 64 + (b[i + 3] - 128)))
    ELSE [err |-> TRUE, val |-> <<>>]

\* a run of ASCII bytes decodes to itself: taken in one step, so that a long
\* buffer needs no deep recursion
Utf8Decode(b) ==
    IF \A i \in 1..Len(b) : b[i] < 128 THEN [err |-> FALSE, val |-> b] ELSE Utf8Dec(b, 1, <<>>)

\* the outcome of a read: an exception (err), or a value and the next position
Raise(p) == [err |-> TRUE, val |-> PyNone, pos |-> p]

Return(v, p) == [err |-> FALSE, val |-> v, pos |-> p]

\* the tag types _parse_nbt_payload has a branch for
KnownTags == 1..12

\* [struct.unpack('>i', f.read(4))[0] for _ in range(n)]
RECURSIVE ParseIntArray(_, _, _, _)
ParseIntArray(s, p, n, acc) ==
    IF Len(acc) >= n THEN Return(PyList(acc), p)
    ELSE IF ~Avail(s, p, 4) THEN Raise(p)
    ELSE ParseIntArray(s, p + 4, n, Append(acc, PyInt(UnpackI(s, p))))

\* [struct.unpack('>q', f.read(8))[0] for _ in range(n)]
RECURSIVE ParseLongArray(_, _, _, _)
ParseLongArray(s, p, n, acc) ==
    IF Len(acc) >= n THEN Return(PyList(acc), p)
    ELSE IF ~Avail(s, p, 8) THEN Raise(p)
    ELSE ParseLongArray(s, p + 8, n, Append(acc, PyLong(UnpackQ(s, p))))

RECURSIVE ParsePayload(_, _, _)
RECURSIVE ParseList(_, _, _, _, _)
RECURSIVE ParseCompound(_, _, _)

\* _parse_nbt_payload(f, tag_type) with f at position p of stream s
ParsePayload(s, p, t) ==
    CASE t = 1 -> IF Avail(s, p, 1) THEN Return(PyInt(UnpackB(s, p)), p + 1) ELSE Raise(p)
      [] t = 2 -> IF Avail(s, p, 2) THEN Return(PyInt(UnpackH(s, p)), p + 2) ELSE Raise(p)
      [] t = 3 -> IF Avail(s, p, 4) THEN Return(PyInt(UnpackI(s, p)), p + 4) ELSE Raise(p)
      [] t = 4 -> IF Avail(s, p, 8) THEN Return(PyLong(UnpackQ(s, p)), p + 8) ELSE Raise(p)
      [] t = 5 -> IF Avail(s, p, 4) THEN Return(PyFloat(SubSeq(s, p, p + 3)), p + 4) ELSE Raise(p)
      [] t = 6 -> IF Avail(s, p, 8) THEN Return(PyFloat(SubSeq(s, p, p + 7)), p + 8) ELSE Raise(p)
      [] t = 7 ->
            IF ~Avail(s, p, 4) THEN Raise(p)
            ELSE LET d == Read(s, p + 4, UnpackI(s, p))
                 IN  Return(PyBytes(d), p + 4 + Len(d))
      [] t = 8 ->
            IF ~Avail(s, p, 2) THEN Raise(p)
            ELSE LET d == Read(s, p + 2, UnpackH(s, p))
                     u == Utf8Decode(d)
                 IN  IF u.err THEN Raise(p) ELSE Return(PyStr(u.val), p + 2 + Len(d))
      [] t = 9 ->
            IF ~Avail(s, p, 5) THEN Raise(p)
            ELSE ParseList(s, p + 5, UnpackB(s, p), UnpackI(s, p + 1), <<>>)
      [] t = 10 -> ParseCompound(s, p, <<>>)
      [] t = 11 ->
            IF ~Avail(s, p, 4) THEN Raise(p)
            ELSE ParseIntArray(s, p + 4, UnpackI(s, p), <<>>)
      [] t = 12 ->
            IF ~Avail(s, p, 4) THEN Raise(p)
            ELSE ParseLongArray(s, p + 4, UnpackI(s, p), <<>>)
      [] OTHER -> Return(PyNone, p)

\* [_parse_nbt_payload(f, item_type) for _ in range(n)]; an item of a type with
\* no branch is None and reads nothing, so n of them are taken in one step
ParseList(s, p, item, n, acc) ==
    IF item \notin KnownTags THEN Return(PyList([i \in 1..n |-> PyNone]), p)
    ELSE IF Len(acc) >= n THEN Return(PyList(acc), p)
    ELSE LET r == ParsePayload(s, p, item)
         IN  IF r.err THEN r ELSE ParseList(s, r.pos, item, n, Append(acc, r.val))

\* the while True loop of tag_type == 10
ParseCompound(s, p, acc) ==
    IF ~Avail(s, p, 1) THEN Raise(p)
    ELSE IF UnpackB(s, p) = 0 THEN Return(PyDict(acc), p + 1)
    ELSE IF ~Avail(s, p + 1, 2) THEN Raise(p)
    ELSE LET d == Read(s, p + 3, UnpackH(s, p + 1))
             u == Utf8Decode(d)
             r == ParsePayload(s, p + 3 + Len(d), UnpackB(s, p))
         IN  IF u.err THEN Raise(p)
             ELSE IF r.err THEN r
             ELSE ParseCompound(s, r.pos, DictSet(acc, u.val, r.val))

\* _read_level_dat on the decompressed bytes of the file
ReadLevelDat(s) ==
    IF ~Avail(s, 1, 3) THEN Raise(1)
    ELSE ParsePayload(s, 4 + Len(Read(s, 4, UnpackH(s, 2))), UnpackB(s, 1))


(***************************************************************************)
(* Gamerules: GAMERULE_DEFAULTS, collect_gamerules                         *)
(***************************************************************************)
GAMERULE_DEFAULTS ==
     ("minecraft:advance_time" :> "1")
  @@ ("minecraft:advance_weather" :> "1")
  @@ ("minecraft:allow_entering_nether_using_portals" :> "1")
  @@ ("minecraft:block_drops" :> "1")
  @@ ("minecraft:block_explosion_drop_decay" :> "1")
  @@ ("minecraft:command_block_output" :> "1")
  @@ ("minecraft:command_blocks_work" :> "1")
  @@ ("minecraft:drowning_damage" :> "1")
  @@ ("minecraft:elytra_movement_check" :> "1")
  @@ ("minecraft:ender_pearls_vanish_on_death" :> "1")
  @@ ("minecraft:entity_drops" :> "1")
  @@ ("minecraft:fall_damage" :> "1")
  @@ ("minecraft:fire_damage" :> "1")
  @@ ("minecraft:fire_spread_radius_around_player" :> "128")
  @@ ("minecraft:forgive_dead_players" :> "1")
  @@ ("minecraft:freeze_damage" :> "1")
  @@ ("minecraft:global_sound_events" :> "1")
  @@ ("minecraft:immediate_respawn" :> "0")
  @@ ("minecraft:keep_inventory" :> "0")
  @@ ("minecraft:lava_source_conversion" :> "0")
  @@ ("minecraft:limited_crafting" :> "0")
  @@ ("minecraft:locator_bar" :> "1")
  @@ ("minecraft:log_admin_commands" :> "1")
  @@ ("minecraft:max_block_modifications" :> "32768")
  @@ ("minecraft:max_command_forks" :> "65536")
  @@ ("minecraft:max_command_sequence_length" :> "65536")
  @@ ("minecraft:max_entity_cramming" :> "24")
  @@ ("minecraft:max_snow_accumulation_height" :> "1")
  @@ ("minecraft:mob_drops" :> "1")
  @@ ("minecraft:mob_explosion_drop_decay" :> "1")
  @@ ("minecraft:mob_griefing" :> "1")
  @@ ("minecraft:natural_health_regeneration" :> "1")
  @@ ("minecraft:player_movement_check" :> "1")
  @@ ("minecraft:players_nether_portal_creative_delay" :> "0")
  @@ ("minecraft:players_nether_portal_default_delay" :> "80")
  @@ ("minecraft:players_sleeping_percentage" :> "100")
  @@ ("minecraft:projectiles_can_break_blocks" :> "1")
  @@ ("minecraft:pvp" :> "1")
  @@ ("minecraft:raids" :> "1")
  @@ ("minecraft:random_tick_speed" :> "3")
  @@ ("minecraft:reduced_debug_info" :> "0")
  @@ ("minecraft:respawn_radius" :> "10")
  @@ ("minecraft:send_command_feedback" :> "1")
  @@ ("minecraft:show_advancement_messages" :> "1")
  @@ ("minecraft:show_death_messages" :> "1")
  @@ ("minecraft:spawn_mobs" :> "1")
  @@ ("minecraft:spawn_monsters" :> "1")
  @@ ("minecraft:spawn_patrols" :> "1")
  @@ ("minecraft:spawn_phantoms" :> "1")
  @@ ("minecraft:spawn_wandering_traders" :> "1")
  @@ ("minecraft:spawn_wardens" :> "1")
  @@ ("minecraft:spawner_blocks_work" :> "1")
  @@ ("minecraft:spectators_generate_chunks" :> "1")
  @@ ("minecraft:spread_vines" :> "1")
  @@ ("minecraft:tnt_explodes" :> "1")
  @@ ("minecraft:tnt_explosion_drop_decay" :> "0")
  @@ ("minecraft:universal_anger" :> "0")
  @@ ("minecraft:water_source_conversion" :> "1")

\* GAMERULE_DEFAULTS over the code points of its keys and values
GameruleDefaultsCp ==
    [kc \in {Cps(k) : k \in DOMAIN GAMERULE_DEFAULTS} |->
        Cps(GAMERULE_DEFAULTS[CHOOSE k \in DOMAIN GAMERULE_DEFAULTS : Cps(k) = kc])]

\* str(x) of a decoded value.  The decimal digits of an int; a str is itself.
\* An 8-byte int is rendered when it fits 32 bits.  The renderings of the other
\* types (b'..', [..], {..}, a float with its point or exponent, None) and of a
\* wider int are never the text of a default and are kept as the type's name.
StrOf(x) ==
    CASE x.k = "int" -> Cps(ToString(x.v))
      [] x.k = "str" -> x.v
      [] x.k = "long" /\ x.v.hi = 0 /\ x.v.lo[1] < 32768 ->
            Cps(ToString(x.v.lo[1] * 65536 + x.v.lo[2]))
      [] x.k = "long" /\ x.v.hi = -1 /\ x.v.lo[1] >= 32768 ->
            Cps(ToString((x.v.lo[1] - 65536) * 65536 + x.v.lo[2]))
      [] OTHER -> Cps("<" \o x.k \o ">")

\* a < b for two str values: code point order
StrLess(a, b) ==
    \E i \in 1..(Len(a) + 1) :
        /\ i <= Len(b)
        /\ \A j \in 1..(i - 1) : a[j] = b[j]
        /\ (i = Len(a) + 1 \/ a[i] < b[i])

\* sorted(d.keys())
SortedKeys(d) ==
    LET names   == {d[i].name : i \in 1..Len(d)}
        rank(n) == Cardinality({m \in names : StrLess(m, n)}) + 1
    IN  [i \in 1..Cardinality(names) |-> CHOOSE n \in names : rank(n) = i]

\* x.get(name, {}): AttributeError unless x is a dict
GetOrEmpty(x, name) ==
    IF x.k # "dict" THEN [err |-> TRUE, val |-> PyNone]
    ELSE IF DictHas(x.v, name) THEN [err |-> FALSE, val |-> DictGet(x.v, name)]
    ELSE [err |-> FALSE, val |-> PyDict(<<>>)]

\* root.get("Data", {}).get("game_rules", {})
GameRulesOf(root) ==
    LET data == GetOrEmpty(root, Cps("Data"))
    IN  IF data.err THEN data ELSE GetOrEmpty(data.val, Cps("game_rules"))

\* is_changed = default is not None and value != default
RuleIsChanged(key, value) == key \in DOMAIN GameruleDefaultsCp /\ value # GameruleDefaultsCp[key]

\* the entry built for one key of game_rules (display_key and explanation,
\* which only the page shows, are left out)
RuleEntry(gameRules, key) ==
    LET value == StrOf(DictGet(gameRules.v, key))
    IN  [key     |-> key,
         value   |-> value,
         default |-> IF key \in DOMAIN GameruleDefaultsCp THEN GameruleDefaultsCp[key] ELSE Cps("?"),
         changed |-> RuleIsChanged(key, value)]

\* rules, changed = [], []; if not os.path.isfile(LEVEL_DAT): return
GR_Start ==
    /\ grPc = "start"
    /\ grPc' = IF lvExists THEN "read" ELSE "done"
    /\ UNCHANGED <<lvExists, lvGzipOk, lvTree, lvStream, lvRoot,
                   grGameRules, grKeys, grIdx, grRules, grChanged>>
    /\ UNCHANGED exceptGr

\* try: root = _read_level_dat(LEVEL_DAT); game_rules = ...
\* except Exception: return rules, changed
GR_Read ==
    /\ grPc = "read"
    /\ lvRoot' = IF lvGzipOk THEN ReadLevelDat(lvStream) ELSE Raise(1)
    /\ LET gr == GameRulesOf(lvRoot'.val) IN
         IF lvRoot'.err \/ gr.err
         THEN /\ grPc' = "done"
              /\ UNCHANGED grGameRules
         ELSE /\ grPc' = "keys"
              /\ grGameRules' = gr.val
    /\ UNCHANGED <<lvExists, lvGzipOk, lvTree, lvStream, grKeys, grIdx, grRules, grChanged>>
    /\ UNCHANGED exceptGr

\* sorted(game_rules.keys()), outside the try: AttributeError unless a dict
GR_Keys ==
    /\ grPc = "keys"
    /\ IF grGameRules.k = "dict"
       THEN /\ grKeys' = SortedKeys(grGameRules.v)
            /\ grPc' = "loop"
       ELSE /\ grPc' = "raised"
            /\ UNCHANGED grKeys
    /\ UNCHANGED <<lvExists, lvGzipOk, lvTree, lvStream, lvRoot,
                   grGameRules, grIdx, grRules, grChanged>>
    /\ UNCHANGED exceptGr

\* one iteration of: for key in sorted(game_rules.keys())
GR_Rule ==
    /\ grPc = "loop"
    /\ grIdx <= Len(grKeys)
    /\ LET entry == RuleEntry(grGameRules, grKeys[grIdx]) IN
         /\ grRules' = Append(grRules, entry)
         /\ grChanged' = IF entry.changed THEN Append(grChanged, entry) ELSE grChanged
    /\ grIdx' = grIdx + 1
    /\ UNCHANGED <<lvExists, lvGzipOk, lvTree, lvStream, lvRoot, grGameRules, grKeys, grPc>>
    /\ UNCHANGED exceptGr

\* return rules, changed
GR_Return ==
    /\ grPc = "loop"
    /\ grIdx > Len(grKeys)
    /\ grPc' = "done"
    /\ UNCHANGED <<lvExists, lvGzipOk, lvTree, lvStream, lvRoot,
                   grGameRules, grKeys, grIdx, grRules, grChanged>>
    /\ UNCHANGED exceptGr

(***************************************************************************)
(* The files collect_gamerules is run on: trees of tags and their          *)
(* big-endian tagged encoding (the format _parse_nbt_payload reads: a      *)
(* named tag is its type byte, the unsigned 16-bit length of its name, the *)
(* name in UTF-8 and its payload; a string is its unsigned 16-bit length   *)
(* and its UTF-8 bytes; arrays and lists carry a signed 32-bit count).     *)
(*                                                                         *)
(* A tree node is [t, v]: t the tag type, v its content.                   *)
(***************************************************************************)
TByte(n) == [t |-> 1, v |-> n]

TShort(n) == [t |-> 2, v |-> n]

TInt(n) == [t |-> 3, v |-> n]

TLong(hi, l1, l2) == [t |-> 4, v |-> [hi |-> hi, lo |-> <<l1, l2>>]]

TByteArray(b) == [t |-> 7, v |-> b]

TString(cps) == [t |-> 8, v |-> cps]

TList(et, items) == [t |-> 9, v |-> [et |-> et, items |-> items]]

TCompound(items) == [t |-> 10, v |-> items]

TIntArray(ns) == [t |-> 11, v |-> ns]

TLongArray(qs) == [t |-> 12, v |-> qs]

\* a tag whose type byte is none the decoder has a branch for; it has no payload
UnknownTag == 13

TUnknown == [t |-> UnknownTag, v |-> 0]

Item(name, node) == [name |-> name, val |-> node]

EncInt16(n) == <<(n \div 256) % 256, n % 256>>

EncInt32(n) == <<(n \div 16777216) % 256, (n \div 65536) % 256, (n \div 256) % 256, n % 256>>

EncInt64(q) == EncInt32(q.hi) \o EncInt16(q.lo[1]) \o EncInt16(q.lo[2])

RECURSIVE Utf8Enc(_, _)
Utf8Enc(cps, i) ==
    IF i > Len(cps) THEN <<>>
    ELSE (IF cps[i] < 128 THEN <<cps[i]>>
          ELSE IF cps[i] < 2048 THEN <<192 + (cps[i] \div 64), 128 + (cps[i] % 64)>>
          ELSE IF cps[i] < 65536
               THEN <<224 + (cps[i] \div 4096), 128 + ((cps[i] \div 64) % 64),
                      128 + (cps[i] % 64)>>
          ELSE <<240 + (cps[i] \div 262144), 128 + ((cps[i] \div 4096) % 64),
                 128 + ((cps[i] \div 64) % 64), 128 + (cps[i] % 64)>>)
         \o Utf8Enc(cps, i + 1)

Utf8Encode(cps) == IF \A i \in 1..Len(cps) : cps[i] < 128 THEN cps ELSE Utf8Enc(cps, 1)

EncString(cps) == EncInt16(Len(Utf8Encode(cps))) \o Utf8Encode(cps)

RECURSIVE EncPayload(_)
RECURSIVE EncEach(_, _)
RECURSIVE EncItems(_, _)

EncPayload(node) ==
    CASE node.t = 1 -> <<node.v % 256>>
      [] node.t = 2 -> EncInt16(node.v)
      [] node.t = 3 -> EncInt32(node.v)
      [] node.t = 4 -> EncInt64(node.v)
      [] node.t = 7 -> EncInt32(Len(node.v)) \o node.v
      [] node.t = 8 -> EncString(node.v)
      [] node.t = 9 -> <<node.v.et>> \o EncInt32(Len(node.v.items)) \o EncEach(node.v.items, 1)
      [] node.t = 10 -> EncItems(node.v, 1) \o <<0>>
      [] node.t = 11 -> EncInt32(Len(node.v)) \o EncEach([i \in 1..Len(node.v) |-> TInt(node.v[i])], 1)
      [] node.t = 12 -> EncInt32(Len(node.v)) \o EncEach([i \in 1..Len(node.v) |-> [t |-> 4, v |-> node.v[i]]], 1)
      [] OTHER -> <<>>

EncEach(nodes, i) ==
    IF i > Len(nodes) THEN <<>> ELSE EncPayload(nodes[i]) \o EncEach(nodes, i + 1)

EncNamed(name, node) == <<node.t>> \o EncString(name) \o EncPayload(node)

EncItems(items, i) ==
    IF i > Len(items) THEN <<>>
    ELSE EncNamed(items[i].name, items[i].val) \o EncItems(items, i + 1)

\* the file of a tree: the root tag with the empty name
EncFile(tree) == EncNamed(<<>>, tree)

\* the Python value a tree stands for
RECURSIVE ValueOf(_)
ValueOf(node) ==
    CASE node.t \in {1, 2, 3} -> PyInt(node.v)
      [] node.t = 4 -> PyLong(node.v)
      [] node.t = 7 -> PyBytes(node.v)
      [] node.t = 8 -> PyStr(node.v)
      [] node.t = 9 -> PyList([i \in 1..Len(node.v.items) |-> ValueOf(node.v.items[i])])
      [] node.t = 10 -> PyDict([i \in 1..Len(node.v) |->
                                  [name |-> node.v[i].name, val |-> ValueOf(node.v[i].val)]])
      [] node.t = 11 -> PyList([i \in 1..Len(node.v) |-> PyInt(node.v[i])])
      [] node.t = 12 -> PyList([i \in 1..Len(node.v) |-> PyLong(node.v[i])])
      [] OTHER -> PyNone

\* whether every tag of a tree is of a supported type
RECURSIVE Supported(_)
Supported(node) ==
    CASE node.t \in {1, 2, 3, 4, 7, 8, 11, 12} -> TRUE
      [] node.t = 9 -> /\ node.v.et \in KnownTags \cup {0}
                       /\ \A i \in 1..Len(node.v.items) : Supported(node.v.items[i])
      [] node.t = 10 -> \A i \in 1..Len(node.v) : Supported(node.v[i].val)
      [] OTHER -> FALSE

ScalarTrees ==
    {TByte(-128), TByte(1), TShort(-2), TShort(258), TInt(-1), TInt(16909060),
     TLong(-1, 65535, 65534), TLong(1, 32768, 2),
     TByteArray(<<>>), TByteArray(<<0, 255>>),
     TString(<<>>), TString(Cps("ab")), TString(<<233, 97>>), TString(<<8364>>),
     TIntArray(<<>>), TIntArray(<<1, -1>>),
     TLongArray(<<[hi |-> 0, lo |-> <<0, 7>>]>>)}

SmallTrees == {TByte(1), TInt(-1), TString(Cps("ab")), TString(<<233, 97>>), TByteArray(<<0, 255>>)}

NameSet == {Cps("a"), Cps("b"), <<233>>}

ListTrees ==
    {TList(0, <<>>), TList(1, <<TByte(1), TByte(-128)>>),
     TList(8, <<TString(Cps("ab")), TString(<<233, 97>>)>>),
     TList(10, <<TCompound(<<>>), TCompound(<<Item(Cps("a"), TByte(1))>>)>>),
     TList(9, <<TList(3, <<TInt(-1)>>), TList(0, <<>>)>>)}

CompoundTrees ==
    {TCompound(<<>>)}
    \cup {TCompound(<<Item(n, x)>>) : n \in NameSet, x \in ScalarTrees \cup ListTrees}
    \cup {TCompound(<<Item(n, x), Item(m, y)>>) :
            n \in NameSet, m \in NameSet, x \in SmallTrees, y \in SmallTrees}

\* a string of 32768 bytes, the first length whose 16-bit prefix has its top bit set
LongString == [i \in 1..32768 |-> 65]

LongTrees == {TCompound(<<Item(Cps("k"), TString(LongString))>>)}

\* trees with a tag of an unknown type: at the root, as a compound child, as a
\* list element type
UnknownTrees ==
    {TUnknown,
     TCompound(<<Item(Cps("a"), TUnknown)>>),
     TCompound(<<Item(Cps("a"), TUnknown), Item(Cps("b"), TByte(1))>>),
     TList(UnknownTag, <<TUnknown, TUnknown>>),
     TCompound(<<Item(Cps("a"), TList(UnknownTag, <<TUnknown>>))>>)}

\* level.dat-shaped trees: {Data: {game_rules: {rule: value, ...}}}
MaxRules == 2

RuleKeys == {Cps("minecraft:pvp"), Cps("minecraft:keep_inventory"), Cps("custom:rule")}

RuleValues == {TByte(0), TByte(1), TString(Cps("1")), TString(Cps("true")), TLong(0, 0, 1)}

RuleItems == {Item(k, x) : k \in RuleKeys, x \in RuleValues}

RuleSets ==
    {r \in UNION {[1..n -> RuleItems] : n \in 0..MaxRules} :
        \A i \in 1..Len(r) : \A j \in 1..Len(r) : i # j => r[i].name # r[j].name}

LevelOf(gameRules) ==
    TCompound(<<Item(Cps("Data"), TCompound(<<Item(Cps("game_rules"), gameRules)>>))>>)

LevelTrees ==
    {LevelOf(TCompound(r)) : r \in RuleSets}
    \cup {LevelOf(x) : x \in {TInt(1), TString(Cps("x")), TList(1, <<TByte(1)>>), TByteArray(<<1>>)}}
    \cup {TCompound(<<Item(Cps("Data"), x)>>) : x \in {TInt(1), TCompound(<<>>), TList(0, <<>>)}}
    \cup {TInt(5), TList(0, <<>>), TString(Cps("Data"))}

\* trees whose encoding is also cut short at every length
CutTrees == ScalarTrees \cup ListTrees \cup CompoundTrees \cup UnknownTrees

AllTrees == CutTrees \cup LongTrees \cup LevelTrees

GR_Init ==
    /\ lvExists \in BOOLEAN
    /\ lvGzipOk \in (IF lvExists THEN BOOLEAN ELSE {FALSE})
    /\ lvTree \in (IF lvGzipOk THEN AllTrees ELSE {TCompound(<<>>)})
    /\ lvStream \in (IF lvGzipOk
                     THEN {EncFile(lvTree)}
                          \cup (IF lvTree \in CutTrees
                                THEN {SubSeq(EncFile(lvTree), 1, n) : n \in 0..(Len(EncFile(lvTree)) - 1)}
                                ELSE {})
                     ELSE {<<>>})
    /\ lvRoot = Raise(1)
    /\ grGameRules = PyDict(<<>>)
    /\ grKeys = <<>>
    /\ grIdx = 1
    /\ grRules = <<>>
    /\ grChanged = <<>>
    /\ grPc = "start"

GR_Idle ==
    /\ lvExists = FALSE
    /\ lvGzipOk = FALSE
    /\ lvTree = TCompound(<<>>)
    /\ lvStream = <<>>
    /\ lvRoot = Raise(1)
    /\ grGameRules = PyDict(<<>>)
    /\ grKeys = <<>>
    /\ grIdx = 1
    /\ grRules = <<>>
    /\ grChanged = <<>>
    /\ grPc = "idle"

(***************************************************************************)
(* Specifications                                                          *)
(***************************************************************************)
\* server.properties and level.dat: one of the two collectors runs
\* no request to /api/tags was sent yet
NotAsked == [kind |-> "unasked", models |-> <<>>]

\* the add-on collectors do not run
MD_Idle ==
    /\ clientFiles = <<>>
    /\ indexed = <<>>
    /\ serverFiles = <<>>
    /\ aiCacheFile = [kind |-> "missing", data |-> <<>>]
    /\ ollama_ok = "None"
    /\ aiCalls = 0
    /\ aiProbes = 0
    /\ aiTags = NotAsked
    /\ aiGenerates = 0
    /\ aiLast = [key |-> "", hit |-> FALSE, result |-> [k |-> "none", v |-> 0], fields |-> {}]
    /\ mdIdx = 1
    /\ clientMods = <<>>
    /\ serverMods = <<>>
    /\ mdPc = "idle"
    /\ packDir = [isdir |-> FALSE, entries |-> <<>>]
    /\ datapacks = <<>>

\* collect_players does not run
PL_Idle ==
    /\ usercacheFile = [kind |-> "missing", data |-> <<>>]
    /\ uuid_to_name = <<>>
    /\ statsFiles = <<>>
    /\ plError = ""
    /\ plUuids = <<>>
    /\ plIdx = 1
    /\ plJoined = <<>>
    /\ players = <<>>
    /\ seen = <<>>
    /\ seenKeys = <<>>
    /\ plPc = "idle"

\* the data fetcher does not run
FT_Idle ==
    /\ ftOutput = [kind |-> "missing", data |-> <<>>]
    /\ ftIndexDir = <<>>
    /\ ftServerDir = <<>>
    /\ ftPackDir = <<>>
    /\ ftConfigDirs = <<>>
    /\ ftHitLists = {}
    /\ ftData = <<>>
    /\ client_mods = <<>>
    /\ server_mods = <<>>
    /\ ftMissing = <<>>
    /\ ftPacks = <<>>
    /\ ftIdx = 1
    /\ has_ollama = FALSE
    /\ ftLog = <<>>
    /\ ftError = ""
    /\ ftPc = "idle"

\* collect_configs does not run
CF_Idle ==
    /\ cfDir = [isdir |-> FALSE, files |-> <<>>]
    /\ cfIdx = 1
    /\ configs = <<>>
    /\ cfPc = "idle"

\* no time
NoTime == 0 - 1

\* _modrinth_get is not watched
TH_Idle ==
    /\ thNow = 0
    /\ thLast = 0
    /\ thSent = NoTime
    /\ thPrevSent = NoTime
    /\ thDone = NoTime
    /\ thCalls = 0
    /\ thPc = "off"

\* lookup_mod_info is not called on its own
LK_Idle ==
    /\ lkName = ""
    /\ lkResult = PyNone
    /\ lkPrev = <<>>
    /\ lkPc = "idle"

SettingsInit ==
    ((SP_Init /\ GR_Idle) \/ (GR_Init /\ SP_Idle)) /\ MD_Idle /\ PL_Idle /\ FT_Idle /\ CF_Idle
    /\ LK_Idle /\ TH_Idle

SettingsNext ==
    \/ SP_Start \/ SP_Line \/ SP_Return
    \/ GR_Start \/ GR_Read \/ GR_Keys \/ GR_Rule \/ GR_Return

SpecSettings == SettingsInit /\ [][SettingsNext]_vars

(***************************************************************************)
(* Properties of the settings collectors (SpecSettings)                    *)
(***************************************************************************)
\* a line that is neither blank, nor a comment, nor without "="
IsKeyValueLine(l) ==
    /\ Strip(l) # ""
    /\ CharAt(Strip(l), 1) # "#"
    /\ \E i \in 1..Len(l) : CharAt(l, i) = "="

\* the key=value lines among the lines the loop has taken
TakenKeyValueLines == SelectSeq(SubSeq(spFile, 1, spIdx - 1), IsKeyValueLine)

EntryIsChanged(e) == e.changed

\* the default and the changed flag of an entry against a table of defaults
EntryMatchesDefaults(e, defaults, sentinel) ==
    /\ e.default = (IF e.key \in DOMAIN defaults THEN defaults[e.key] ELSE sentinel)
    /\ e.changed <=> (e.key \in DOMAIN defaults /\ e.value # defaults[e.key])

\* C4: every key=value line of the properties file and every decoded gamerule
\* gives exactly one entry; its default is the table default, or "?" when the
\* key has none; its changed flag is true iff a default exists and the value
\* differs from it as a string; the changed list is the flagged entries, in order.
C4_EntriesMatchDefaults ==
    /\ Len(spProps) = Len(TakenKeyValueLines)
    /\ \A i \in 1..Len(spProps) :
          /\ spProps[i].key = PropKey(Strip(TakenKeyValueLines[i]))
          /\ EntryMatchesDefaults(spProps[i], SERVER_DEFAULTS, "?")
    /\ spChanged = SelectSeq(spProps, EntryIsChanged)
    /\ grPc \in {"loop", "done"} =>
          /\ Len(grRules) = grIdx - 1
          /\ \A i \in 1..Len(grRules) :
                /\ grRules[i].key = grKeys[i]
                /\ grRules[i].value = StrOf(DictGet(grGameRules.v, grKeys[i]))
                /\ EntryMatchesDefaults(grRules[i], GameruleDefaultsCp, Cps("?"))
          /\ grChanged = SelectSeq(grRules, EntryIsChanged)
    /\ grPc = "done" =>
          /\ Len(grRules) = Len(grGameRules.v)
          /\ \A j \in 1..Len(grGameRules.v) :
                Cardinality({i \in 1..Len(grRules) : grRules[i].key = grGameRules.v[j].name}) = 1

\* C4, its case: difficulty=hard against the default easy gives one changed
\* entry, and a changed gamerule has been listed
C4_Witness ==
    \/ /\ spPc = "done"
       /\ spFile = <<"difficulty=hard">>
       /\ spChanged = <<[key |-> "difficulty", value |-> "hard", default |-> "easy",
                         changed |-> TRUE]>>
    \/ /\ grPc = "done"
       /\ Len(grRules) = 2
       /\ Len(grChanged) = 1
       /\ \E i \in 1..2 : grRules[i].default = Cps("?")

\* C5: a secret key that appears with a non-empty value has the placeholder as
\* the value of its entry, in the list of all entries and in the changed list,
\* whether or not the entry is flagged changed.
C5_SecretsRedacted ==
    /\ \A i \in 1..Len(spProps) :
          LET line == Strip(TakenKeyValueLines[i]) IN
            (PropKey(line) \in SECRET_PROPERTIES /\ PropRawValue(line) # "")
               => /\ spProps[i].key = PropKey(line)
                  /\ spProps[i].value = REDACTED
    /\ \A i \in 1..Len(spChanged) :
          spChanged[i].key \in SECRET_PROPERTIES => spChanged[i].value = REDACTED

\* C5, its case: a secret with a real value has been listed and flagged
C5_Witness ==
    /\ spPc = "done"
    /\ \E i \in 1..Len(spFile) : spFile[i] = "rcon.password=s3cret"
    /\ \E i \in 1..Len(spProps) :
          spProps[i].key = "rcon.password" /\ spProps[i].value = REDACTED
    /\ \E i \in 1..Len(spChanged) : spChanged[i].key = "rcon.password"

\* _read_level_dat has run on the bytes of the file
Decoded == lvGzipOk /\ grPc \in {"keys", "loop", "done", "raised"}

\* the file holds the whole encoding of its tree
Intact == lvStream = EncFile(lvTree)

\* the names of every compound of a tree are distinct, as the keys of a mapping are
RECURSIVE DistinctNames(_)
DistinctNames(node) ==
    CASE node.t = 9 -> \A i \in 1..Len(node.v.items) : DistinctNames(node.v.items[i])
      [] node.t = 10 -> /\ \A i \in 1..Len(node.v) : DistinctNames(node.v[i].val)
                        /\ \A i \in 1..Len(node.v) : \A j \in 1..Len(node.v) :
                              i # j => node.v[i].name # node.v[j].name
      [] OTHER -> TRUE

\* the file is the encoding of a value of supported types
EncodesValue == Supported(lvTree) /\ DistinctNames(lvTree) /\ Intact

\* C7: decoding the encoding of a tree of supported tags gives the tree back
\* (numbers, strings, list order, compound key order) and reads exactly the
\* encoded bytes.
C7_RoundTrip ==
    (Decoded /\ EncodesValue)
        => /\ ~lvRoot.err
           /\ lvRoot.val = ValueOf(lvTree)
           /\ lvRoot.pos = Len(lvStream) + 1

\* the strings and names of a tree are shorter than 32768 bytes
RECURSIVE ShortStrings(_)
ShortStrings(node) ==
    CASE node.t = 8 -> Len(Utf8Encode(node.v)) < 32768
      [] node.t = 9 -> \A i \in 1..Len(node.v.items) : ShortStrings(node.v.items[i])
      [] node.t = 10 -> \A i \in 1..Len(node.v) :
                            /\ Len(Utf8Encode(node.v[i].name)) < 32768
                            /\ ShortStrings(node.v[i].val)
      [] OTHER -> TRUE

\* C7 on trees whose strings and names are shorter than 32768 bytes
C7_RoundTripShortStrings ==
    (Decoded /\ EncodesValue /\ ShortStrings(lvTree))
        => /\ ~lvRoot.err
           /\ lvRoot.val = ValueOf(lvTree)
           /\ lvRoot.pos = Len(lvStream) + 1

\* C8: a stream with a tag of an unknown type, or one that ends before its
\* encoding is complete, makes the decoder fail; no tree is returned.
C8_MalformedFails ==
    (Decoded /\ ShortStrings(lvTree) /\ (~Supported(lvTree) \/ ~Intact)) => lvRoot.err

\* C9: collect_gamerules returns without raising, and returns two empty lists
\* whenever the gamerule data cannot be obtained.
C9_NeverRaises ==
    /\ grPc # "raised"
    /\ (grPc = "done" /\ (~lvExists \/ ~lvGzipOk \/ lvRoot.err \/ GameRulesOf(lvRoot.val).err))
          => (grRules = <<>> /\ grChanged = <<>>)

(***************************************************************************)
(* Add-on names: jar_to_name, version_from_jar, JAR_NAME_OVERRIDES,        *)
(* MOD_INFO and lookup_mod_info.  File names hold no line break.           *)
(***************************************************************************)
UpperLetters == "ABCDEFGHIJKLMNOPQRSTUVWXYZ"

LowerLetters == "abcdefghijklmnopqrstuvwxyz"

Digits == "0123456789"

CharsOf(s) == {CharAt(s, i) : i \in 1..Len(s)}

UpperSet == CharsOf(UpperLetters)

LowerSet == CharsOf(LowerLetters)

DigitSet == CharsOf(Digits)

LowerChar(c) ==
    IF c \in UpperSet THEN CharAt(LowerLetters, Find(UpperLetters, c)) ELSE c

\* str.lower()
RECURSIVE LowerFrom(_, _)
LowerFrom(s, i) ==
    IF i > Len(s) THEN "" ELSE LowerChar(CharAt(s, i)) \o LowerFrom(s, i + 1)

Lower(s) == LowerFrom(s, 1)

\* str.replace(old, new), old not empty
RECURSIVE Replace(_, _, _)
Replace(s, old, new) ==
    LET i == Find(s, old)
    IN  IF i = 0 THEN s
        ELSE SubSeq(s, 1, i - 1) \o new \o Replace(SubSeq(s, i + Len(old), Len(s)), old, new)

\* the character at i, "" beyond the ends
At(s, i) == IF i \in 1..Len(s) THEN CharAt(s, i) ELSE ""

\* \d
IsDigit(c) == c \in DigitSet

\* \w
IsWordChar(c) == c \in DigitSet \cup LowerSet \cup UpperSet \cup {"_"}

\* [\w.+\-]
IsVersionChar(c) == IsWordChar(c) \/ c \in {".", "+", "-"}

\* [-_]
IsSeparator(c) == c \in {"-", "_"}

\* the index after the digits that start at i
RECURSIVE DigitsEnd(_, _)
DigitsEnd(s, i) == IF IsDigit(At(s, i)) THEN DigitsEnd(s, i + 1) ELSE i

\* the index after the characters of [\w.+\-] that start at i
RECURSIVE VersionEnd(_, _)
VersionEnd(s, i) == IF IsVersionChar(At(s, i)) THEN VersionEnd(s, i + 1) ELSE i

\* [-_]\d+\. matches at i
VersionSuffixAt(s, i) ==
    /\ IsSeparator(At(s, i))
    /\ IsDigit(At(s, i + 1))
    /\ At(s, DigitsEnd(s, i + 1)) = "."

\* [-_]<word> matches at i, ignoring case
WordSuffixAt(s, i, word) ==
    /\ IsSeparator(At(s, i))
    /\ i + Len(word) <= Len(s)
    /\ Lower(SubSeq(s, i + 1, i + Len(word))) = word

\* [-_]mc\d matches at i, ignoring case
McSuffixAt(s, i) == WordSuffixAt(s, i, "mc") /\ IsDigit(At(s, i + 3))

\* the least of a set of indices
First(hits) == CHOOSE i \in hits : \A j \in hits : i <= j

\* re.sub(pattern + '.*$', '', s), hits being the indices where the pattern
\* matches: s up to the first match
CutAtFirst(s, hits) == IF hits = {} THEN s ELSE SubSeq(s, 1, First(hits) - 1)

jar_to_name(jar) ==
    LET n0 == Replace(jar, ".jar", "")
        n1 == CutAtFirst(n0, {i \in 1..Len(n0) : VersionSuffixAt(n0, i)})
        n2 == CutAtFirst(n1, {i \in 1..Len(n1) : WordSuffixAt(n1, i, "fabric")})
        n3 == CutAtFirst(n2, {i \in 1..Len(n2) : WordSuffixAt(n2, i, "neoforge")})
        n4 == CutAtFirst(n3, {i \in 1..Len(n3) : McSuffixAt(n3, i)})
    IN  Strip(Replace(Replace(n4, "-", " "), "_", " "))

\* \d+\.\d+ matches at i
VersionAt(s, i) ==
    /\ IsDigit(At(s, i))
    /\ At(s, DigitsEnd(s, i)) = "."
    /\ IsDigit(At(s, DigitsEnd(s, i) + 1))

version_from_jar(jar) ==
    LET name == Replace(jar, ".jar", "")
        hits == {i \in 1..Len(name) : VersionAt(name, i)}
    IN  IF hits = {} THEN "unknown"
        ELSE SubSeq(name, First(hits), VersionEnd(name, DigitsEnd(name, First(hits)) + 1) - 1)

JAR_NAME_OVERRIDES ==
     ("[Fabric]ctov-1.21.11-3.6.1a.jar" :> <<"ChoiceTheorem's Overhauled Village", "3.6.1a">>)
  @@ ("t_and_t-fabric-neoforge-1.13.8.jar" :> <<"Towns and Towers", "1.13.8">>)
  @@ ("NE-1.21.11-1.10.2.jar" :> <<"No Expensive", "1.10.2">>)
  @@ ("Origins-Legacy-1.11.4+1.21.11.jar" :> <<"Origins: Legacy", "1.11.4+1.21.11">>)
  @@ ("beaconrange-1.4.0-21.jar" :> <<"Beacon Range Extender", "1.4.0">>)
  @@ ("Explorify v1.6.4 f15-88.mod.jar" :> <<"Explorify", "1.6.4">>)
  @@ ("Incendium_1.21.x_v5.4.10.jar" :> <<"Incendium", "5.4.10">>)
  @@ ("Structory_1.21.x_v1.3.14.jar" :> <<"Structory", "1.3.14">>)
  @@ ("Structory_Towers_1.21.x_v1.0.15.jar" :> <<"Structory Towers", "1.0.15">>)
  @@ ("supermartijn642configlib-1.1.8-fabric-mc1.21.11.jar" :> <<"SuperMartijn642's Config Lib", "1.1.8">>)
  @@ ("supermartijn642corelib-1.1.20-fabric-mc1.21.11.jar" :> <<"SuperMartijn642's Core Lib", "1.1.20">>)

\* the knowledge base, in the order of the source; a dash outside ASCII is written "-"
MOD_INFO ==
    <<
      [key |-> "bad packets",
       val |-> [desc |-> "Packet handling library for Fabric/Quilt mods",
               side |-> "both", req |-> "library"]],
      [key |-> "balm",
       val |-> [desc |-> "Abstraction layer / library used by BlayMappings mods (Waystones, etc.)",
               side |-> "both", req |-> "library"]],
      [key |-> "betterf3",
       val |-> [desc |-> "Replaces the F3 debug screen with a customisable, more readable one",
               side |-> "client", req |-> "optional"]],
      [key |-> "bobby",
       val |-> [desc |-> "Caches and renders chunks beyond server view-distance on the client",
               side |-> "client", req |-> "optional"]],
      [key |-> "carry on",
       val |-> [desc |-> "Lets you pick up and carry tile-entities and mobs",
               side |-> "both", req |-> "optional"]],
      [key |-> "chat heads",
       val |-> [desc |-> "Adds player head icons next to chat messages",
               side |-> "client", req |-> "optional"]],
      [key |-> "chunk loaders",
       val |-> [desc |-> "Adds blocks that keep chunks loaded when you are away",
               side |-> "both", req |-> "optional"]],
      [key |-> "cloth config api",
       val |-> [desc |-> "Configuration screen library used by many mods",
               side |-> "both", req |-> "library"]],
      [key |-> "enchantment descriptions",
       val |-> [desc |-> "Adds enchantment descriptions to tooltips",
               side |-> "client", req |-> "optional"]],
      [key |-> "fabric api",
       val |-> [desc |-> "Essential hooks and interoperability layer for Fabric mods",
               side |-> "both", req |-> "required"]],
      [key |-> "fabric language kotlin",
       val |-> [desc |-> "Enables mods written in Kotlin on Fabric",
               side |-> "both", req |-> "library"]],
      [key |-> "fallingtree",
       val |-> [desc |-> "Chop a whole tree by breaking a single log block",
               side |-> "both", req |-> "optional"]],
      [key |-> "iris shaders",
       val |-> [desc |-> "Shader pack loader compatible with OptiFine shaders, works with Sodium",
               side |-> "client", req |-> "optional"]],
      [key |-> "just enough items (jei)",
       val |-> [desc |-> "Item and recipe browser / lookup GUI",
               side |-> "both", req |-> "optional"]],
      [key |-> "lootr",
       val |-> [desc |-> "Makes loot containers per-player so everyone gets their own loot",
               side |-> "both", req |-> "required"]],
      [key |-> "mod menu",
       val |-> [desc |-> "Adds an in-game mod list screen with config access",
               side |-> "client", req |-> "optional"]],
      [key |-> "origins: legacy",
       val |-> [desc |-> "Choose an Origin at the start that gives unique abilities & weaknesses",
               side |-> "both", req |-> "required"]],
      [key |-> "text placeholder api",
       val |-> [desc |-> "Server-side text placeholder / formatting API",
               side |-> "both", req |-> "library"]],
      [key |-> "prickle",
       val |-> [desc |-> "Library providing shared utilities for BlayMappings mods",
               side |-> "both", req |-> "library"]],
      [key |-> "promenade",
       val |-> [desc |-> "Adds new biomes, mobs, and building blocks to world generation",
               side |-> "both", req |-> "required"]],
      [key |-> "sodium",
       val |-> [desc |-> "High-performance rendering engine replacement - massive FPS improvements",
               side |-> "client", req |-> "required"]],
      [key |-> "supermartijn642's config lib",
       val |-> [desc |-> "Configuration library for SuperMartijn642's mods",
               side |-> "both", req |-> "library"]],
      [key |-> "supermartijn642's core lib",
       val |-> [desc |-> "Core library for SuperMartijn642's mods",
               side |-> "both", req |-> "library"]],
      [key |-> "waystones",
       val |-> [desc |-> "Adds waystones for fast-travel teleportation between locations",
               side |-> "both", req |-> "required"]],
      [key |-> "wthit",
       val |-> [desc |-> "\"What The Hell Is That\" - shows info tooltip when looking at blocks/entities",
               side |-> "both", req |-> "optional"]],
      [key |-> "xaero's minimap",
       val |-> [desc |-> "Real-time minimap overlay with waypoints",
               side |-> "client", req |-> "optional"]],
      [key |-> "xaero's world map",
       val |-> [desc |-> "Full-screen world map companion to Xaero's Minimap",
               side |-> "client", req |-> "optional"]],
      [key |-> "yetanotherconfiglib (yacl)",
       val |-> [desc |-> "Configuration screen library (YACL)",
               side |-> "both", req |-> "library"]],
      [key |-> "zoomify",
       val |-> [desc |-> "Adds a configurable zoom key (like OptiFine zoom)",
               side |-> "client", req |-> "optional"]],
      [key |-> "additional structures",
       val |-> [desc |-> "Adds many new structures to world generation",
               side |-> "server", req |-> "required"]],
      [key |-> "chunky",
       val |-> [desc |-> "Pre-generates world chunks to reduce lag on exploration",
               side |-> "server", req |-> "optional"]],
      [key |-> "distant horizons",
       val |-> [desc |-> "Renders low-detail terrain far beyond the normal view distance (LODs)",
               side |-> "both", req |-> "optional"]],
      [key |-> "explorify",
       val |-> [desc |-> "Adds dozens of small vanilla-style structures to the world",
               side |-> "server", req |-> "required"]],
      [key |-> "incendium",
       val |-> [desc |-> "Complete overhaul of Nether world generation with structures & biomes",
               side |-> "server", req |-> "required"]],
      [key |-> "moogs end structures",
       val |-> [desc |-> "Adds new structures to the End dimension",
               side |-> "server", req |-> "required"]],
      [key |-> "moogs missing villages",
       val |-> [desc |-> "Adds village variants for biomes that lack them",
               side |-> "server", req |-> "required"]],
      [key |-> "moogs nether structures",
       val |-> [desc |-> "Adds new structures to the Nether dimension",
               side |-> "server", req |-> "required"]],
      [key |-> "moogs soaring structures",
       val |-> [desc |-> "Adds floating/sky structures to the Overworld",
               side |-> "server", req |-> "required"]],
      [key |-> "moogs temples reimagined",
       val |-> [desc |-> "Revamps vanilla temple structures",
               side |-> "server", req |-> "required"]],
      [key |-> "moogs voyager structures",
       val |-> [desc |-> "Adds exploration-focused structures across dimensions",
               side |-> "server", req |-> "required"]],
      [key |-> "no expensive",
       val |-> [desc |-> "Removes the 'Too Expensive' anvil cap",
               side |-> "server", req |-> "optional"]],
      [key |-> "structory",
       val |-> [desc |-> "Adds small vanilla-style structures and ruins to the world",
               side |-> "server", req |-> "required"]],
      [key |-> "structory towers",
       val |-> [desc |-> "Adds tower structures as an expansion to Structory",
               side |-> "server", req |-> "required"]],
      [key |-> "choicetheorem's overhauled village",
       val |-> [desc |-> "Overhauls villages with new designs for every biome",
               side |-> "server", req |-> "required"]],
      [key |-> "abridged",
       val |-> [desc |-> "Shortens & cleans up server join/leave messages",
               side |-> "server", req |-> "optional"]],
      [key |-> "alternate current",
       val |-> [desc |-> "Efficient redstone dust implementation for better server performance",
               side |-> "server", req |-> "required"]],
      [key |-> "antixray",
       val |-> [desc |-> "Hides ores from X-ray texture packs / cheats",
               side |-> "server", req |-> "required"]],
      [key |-> "beacon range extender",
       val |-> [desc |-> "Increases the effective range of beacon effects",
               side |-> "server", req |-> "optional"]],
      [key |-> "c2me",
       val |-> [desc |-> "Concurrent Chunk Management Engine - multi-threaded chunk loading",
               side |-> "server", req |-> "required"]],
      [key |-> "chest protection",
       val |-> [desc |-> "Protects chests from being opened/broken by non-owners",
               side |-> "server", req |-> "optional"]],
      [key |-> "cobweb",
       val |-> [desc |-> "Library for mod configuration and utilities",
               side |-> "server", req |-> "library"]],
      [key |-> "collective",
       val |-> [desc |-> "Shared library for Serilum's mods",
               side |-> "server", req |-> "library"]],
      [key |-> "config backuper",
       val |-> [desc |-> "Automatically backs up server config files",
               side |-> "server", req |-> "optional"]],
      [key |-> "cristellib",
       val |-> [desc |-> "Library for Cristel's mods (CTOV, etc.)",
               side |-> "server", req |-> "library"]],
      [key |-> "dungeons and taverns",
       val |-> [desc |-> "Adds dungeon and tavern structures to world generation",
               side |-> "server", req |-> "required"]],
      [key |-> "easyauth",
       val |-> [desc |-> "Server-side authentication system (login/register)",
               side |-> "server", req |-> "required"]],
      [key |-> "fastback",
       val |-> [desc |-> "Server-side world backup manager using git-based snapshots",
               side |-> "server", req |-> "optional"]],
      [key |-> "ferritecore",
       val |-> [desc |-> "Reduces RAM usage through memory optimisations",
               side |-> "both", req |-> "required"]],
      [key |-> "forge config api port",
       val |-> [desc |-> "Ports Forge's configuration API to Fabric",
               side |-> "server", req |-> "library"]],
      [key |-> "harvest with ease",
       val |-> [desc |-> "Right-click crops to harvest and auto-replant",
               side |-> "server", req |-> "optional"]],
      [key |-> "krypton",
       val |-> [desc |-> "Optimises Minecraft networking stack for better performance",
               side |-> "server", req |-> "required"]],
      [key |-> "lithium",
       val |-> [desc |-> "General-purpose server optimisation mod (game logic, AI, etc.)",
               side |-> "server", req |-> "required"]],
      [key |-> "lithostitched",
       val |-> [desc |-> "Library for data-driven worldgen stitching",
               side |-> "server", req |-> "library"]],
      [key |-> "moogs structure lib",
       val |-> [desc |-> "Library used by all Moogs structure mods",
               side |-> "server", req |-> "library"]],
      [key |-> "packetfixer",
       val |-> [desc |-> "Fixes packet size issues to prevent disconnects",
               side |-> "server", req |-> "required"]],
      [key |-> "polymer",
       val |-> [desc |-> "Server-side mod framework - lets server mods work without client mods",
               side |-> "server", req |-> "library"]],
      [key |-> "skin restorer",
       val |-> [desc |-> "Restores player skins on offline/hybrid servers",
               side |-> "server", req |-> "optional"]],
      [key |-> "spark",
       val |-> [desc |-> "Performance profiler and monitoring tool",
               side |-> "server", req |-> "optional"]],
      [key |-> "sparse structures",
       val |-> [desc |-> "Adjusts vanilla structure spacing to reduce clustering",
               side |-> "server", req |-> "optional"]],
      [key |-> "tectonic",
       val |-> [desc |-> "Overhauls terrain generation with dramatic landscapes",
               side |-> "server", req |-> "required"]],
      [key |-> "towns and towers",
       val |-> [desc |-> "Adds pillager outpost and village structure variants",
               side |-> "server", req |-> "required"]],
      [key |-> "villager names",
       val |-> [desc |-> "Gives villagers random human names",
               side |-> "server", req |-> "optional"]],
      [key |-> "worldedit",
       val |-> [desc |-> "In-game map editor for large-scale building and terraforming",
               side |-> "server", req |-> "optional"]],
      [key |-> "xaero's minimap",
       val |-> [desc |-> "Real-time minimap overlay with waypoints",
               side |-> "client", req |-> "optional"]],
      [key |-> "structory",
       val |-> [desc |-> "Adds small vanilla-style structures and ruins to the world",
               side |-> "server", req |-> "required"]],
      [key |-> "structory towers",
       val |-> [desc |-> "Adds tower structures as an expansion to Structory",
               side |-> "server", req |-> "required"]],
      [key |-> "brewery",
       val |-> [desc |-> "Adds an alcohol brewing system with cauldrons, barrels, and aging",
               side |-> "server", req |-> "optional"]]
    >>

\* re.sub(r'[^a-z0-9 ]', '', s)
RECURSIVE CleanFrom(_, _)
CleanFrom(s, i) ==
    IF i > Len(s) THEN ""
    ELSE (IF CharAt(s, i) \in LowerSet \cup DigitSet \cup {" "} THEN CharAt(s, i) ELSE "")
           \o CleanFrom(s, i + 1)

Clean(s) == CleanFrom(s, 1)

\* the entries of MOD_INFO, in the order of MOD_INFO.items()
Entries == 1..Len(MOD_INFO)

\* clean_k of every key of MOD_INFO
CleanKeys == [i \in Entries |-> Clean(MOD_INFO[i].key)]

\* the keys of MOD_INFO without blanks and apostrophes
FlatKeys == [i \in Entries |-> Replace(Replace(MOD_INFO[i].key, " ", ""), "'", "")]

\* the value of the first of the entries hits of MOD_INFO, None if there is none
FirstModInfo(hits) == IF hits = {} THEN PyNone ELSE MOD_INFO[First(hits)].val

\* lookup_mod_info without its first tier
lookup_fuzzy_only(name) ==
    LET key       == Strip(Lower(name))
        partial   == FirstModInfo({i \in Entries : \/ Contains(key, MOD_INFO[i].key)
                                                    \/ Contains(MOD_INFO[i].key, key)})
        clean_key == Clean(key)
        cleaned   == FirstModInfo({i \in Entries : \/ Contains(clean_key, CleanKeys[i])
                                                    \/ Contains(CleanKeys[i], clean_key)})
    IN  IF partial # PyNone THEN partial ELSE cleaned

lookup_mod_info(name) ==
    LET key       == Strip(Lower(name))
        exact     == FirstModInfo({i \in Entries : MOD_INFO[i].key = key})
        partial   == FirstModInfo({i \in Entries : \/ Contains(key, MOD_INFO[i].key)
                                                    \/ Contains(MOD_INFO[i].key, key)})
        clean_key == Clean(key)
        cleaned   == FirstModInfo({i \in Entries : \/ Contains(clean_key, CleanKeys[i])
                                                    \/ Contains(CleanKeys[i], clean_key)})
    IN  IF exact # PyNone THEN exact
        ELSE IF partial # PyNone THEN partial
        ELSE cleaned

\* the knowledge-base entry whose key, without blanks and apostrophes, occurs in
\* the file name without dashes and underscores
lookup_by_jar(jar) ==
    LET flat == Replace(Replace(Lower(jar), "-", ""), "_", "")
    IN  FirstModInfo({i \in Entries : Contains(flat, FlatKeys[i])})

(***************************************************************************)
(* The generative cache: load_ai_cache, save_ai_cache, _ollama_available,  *)
(* query_ollama, ai_get_mod_info.                                          *)
(*                                                                         *)
(* A JSON object is a function from its field names.  The fields of a     *)
(* record are strings; Null is None as the value of a field.              *)
(***************************************************************************)
Null == "<null>"

\* dict.get(name, default)
Get(d, name, default) == IF name \in DOMAIN d THEN d[name] ELSE default

\* d[name] = val
Put(d, name, val) == [x \in DOMAIN d \cup {name} |-> IF x = name THEN val ELSE d[x]]

\* the truth value of a looked-up record: None and {} are false
Truthy(info) == info # PyNone /\ info # <<>>

\* a reading that takes every file for a missing one
load_ai_cache_fresh(file) == [mods |-> <<>>, datapacks |-> <<>>]

\* the file holds a JSON object, or cannot be parsed, or does not exist
load_ai_cache(file) ==
    IF file.kind = "json" THEN file.data ELSE [mods |-> <<>>, datapacks |-> <<>>]

\* an OSError while writing leaves a warning and the file as it was
save_ai_cache(file, cache, written) ==
    IF written THEN [kind |-> "json", data |-> cache] ELSE file

\* probe: what GET /api/tags gives when it is sent
ollama_available(ok, probe) ==
    IF ok # "None" THEN [ok |-> ok, probes |-> 0, tags |-> NotAsked]
    ELSE [ok |-> IF probe.kind = "models" /\ Len(probe.models) > 0 THEN "True" ELSE "False",
          probes |-> 1, tags |-> probe]

VALID_SIDES == {"client", "server", "both"}

VALID_REQS == {"required", "optional", "library"}

VALID_SECTIONS ==
    {"first-join", "gameplay", "travel", "world-gen", "ui", "datapacks", "behind-scenes"}

\* lines 362-372: the checks on the decoded object
SanitiseModData(data, side_hint) ==
    LET d1 == IF data["side"] \notin VALID_SIDES
              THEN Put(data, "side", IF side_hint # "unknown" THEN side_hint ELSE "both")
              ELSE data
        d2 == IF d1["req"] \notin VALID_REQS THEN Put(d1, "req", "optional") ELSE d1
    IN  IF Get(d2, "guide_section", Null) \notin VALID_SECTIONS
        THEN Put(d2, "guide_section", Null)
        ELSE d2

\* the outcome of a call: what it returns or that it raised, the file and
\* _ollama_ok after it, and the requests it sent
AiOutcome(key, hit, raised, result, file, avail, generates) ==
    [key |-> key, hit |-> hit, raised |-> raised, result |-> result, file |-> file,
     ok |-> avail.ok, probes |-> avail.probes, tags |-> avail.tags, generates |-> generates,
     fields |-> {}]

\* lines 330-378: the request to /api/generate and what is made of its answer.
\* env is what the service and the disk do when asked: env.probe, env.raw,
\* env.written.
AiGenerate(file, key, side_hint, env, avail) ==
    LET cache == load_ai_cache(file)
        mods  == Get(cache, "mods", <<>>)
        out   ==
            IF env.raw.kind \in {"fail", "text"}
            THEN AiOutcome(key, FALSE, FALSE, PyNone, file, avail, 1)
            ELSE IF env.raw.kind = "null"
            THEN AiOutcome(key, FALSE, TRUE, PyNone, file, avail, 1)
            ELSE IF {"desc", "side", "req"} \ DOMAIN env.raw.data # {}
            THEN AiOutcome(key, FALSE, FALSE, PyNone, file, avail, 1)
            ELSE LET data     == SanitiseModData(env.raw.data, side_hint)
                     newCache == Put(cache, "mods", Put(mods, key, data))
                 IN  AiOutcome(key, FALSE, FALSE, data,
                               save_ai_cache(file, newCache, env.written), avail, 1)
    IN  [out EXCEPT !.fields = IF env.raw.kind = "object" THEN DOMAIN env.raw.data ELSE {}]

\* a mutant of ai_get_mod_info: the service is asked before the cache is read
ai_get_mod_info_probe_first(file, ok, name, side_hint, env) ==
    LET key   == Strip(Lower(name))
        mods  == Get(load_ai_cache(file), "mods", <<>>)
        avail == ollama_available(ok, env.probe)
    IN  IF avail.ok # "True" THEN AiOutcome(key, FALSE, FALSE, PyNone, file, avail, 0)
        ELSE IF key \in DOMAIN mods
        THEN AiOutcome(key, TRUE, FALSE, mods[key], file, avail, 0)
        ELSE AiGenerate(file, key, side_hint, env, avail)

ai_get_mod_info(file, ok, name, side_hint, env) ==
    LET key   == Strip(Lower(name))
        mods  == Get(load_ai_cache(file), "mods", <<>>)
        avail == ollama_available(ok, env.probe)
    IN  IF key \in DOMAIN mods
        THEN AiOutcome(key, TRUE, FALSE, mods[key], file, [ok |-> ok, probes |-> 0, tags |-> NotAsked], 0)
        ELSE IF avail.ok # "True" THEN AiOutcome(key, FALSE, FALSE, PyNone, file, avail, 0)
        ELSE AiGenerate(file, key, side_hint, env, avail)

(***************************************************************************)
(* collect_client_mods and collect_server_mods, run one after the other   *)
(* by generate_html.  A missing directory is a directory without files.   *)
(***************************************************************************)
\* sorted(os.listdir(dir))
SortedNames(files) ==
    LET rank(n) == Cardinality({m \in files : StrLess(Cps(m), Cps(n))}) + 1
    IN  [i \in 1..Cardinality(files) |-> CHOOSE n \in files : rank(n) = i]

\* a mutant of ClientSide: a side the client cannot have is kept
ClientSideKept(side) == IF side \notin VALID_SIDES THEN "client" ELSE side

\* lines 678-682
ClientSide(side) ==
    IF side = "server" THEN "both"
    ELSE IF side \notin {"client", "both"} THEN "client"
    ELSE side

\* lines 736-740
ServerSide(side) ==
    IF side = "client" THEN "both"
    ELSE IF side \notin {"server", "both"} THEN "server"
    ELSE side

\* info["desc"] raises KeyError
DescMissing(info) == Truthy(info) /\ "desc" \notin DOMAIN info

\* the record that mods.append receives; context is the side of the collector
ModEntry(name, version, jar, info, context) ==
    LET found == Truthy(info)
        data  == IF found THEN info ELSE <<>>
        side  == IF found THEN Get(info, "side", context) ELSE context
    IN  [name |-> name, version |-> version, jar |-> jar,
         desc |-> IF found THEN info["desc"] ELSE "",
         side |-> IF context = "client" THEN ClientSide(side) ELSE ServerSide(side),
         req |-> IF found THEN Get(info, "req", "unknown") ELSE "unknown",
         ai_guide_section |-> Get(data, "guide_section", Null),
         ai_guide_name |-> Get(data, "guide_name", Null),
         ai_guide_body |-> Get(data, "guide_body", Null),
         ai_guide_example |-> Get(data, "guide_example", Null)]

\* the files CLIENT_MODS can hold
JarNames ==
    {"lithium-fabric-0.21.0.jar", "Explorify v1.6.4 f15-88.mod.jar",
     "qwertymod-1.0.jar", "notes.txt"}

\* the files SERVER_MODS can hold
ServerJarNames == JarNames \cup {"badpackets-fabric-0.8.jar"}

\* the index metadata of the client jars: none, or that of one jar
IndexSets ==
    {<<>>,
     "Explorify v1.6.4 f15-88.mod.jar" :> [name |-> "Explorify", version |-> "1.6.4+f15"]}

\* jar_to_name and version_from_jar of these files, computed once
JarToNameOf == [jar \in ServerJarNames |-> jar_to_name(jar)]

VersionFromJarOf == [jar \in ServerJarNames |-> version_from_jar(jar)]

\* the names the jars of the runs can get
NamesOfRuns ==
    {JarToNameOf[jar] : jar \in ServerJarNames}
    \cup {JAR_NAME_OVERRIDES[jar][1] : jar \in ServerJarNames \cap DOMAIN JAR_NAME_OVERRIDES}
    \cup {index[jar].name : <<index, jar>> \in
             {p \in IndexSets \X JarNames : p[2] \in DOMAIN p[1]}}

\* lookup_mod_info of these names, and the lookup by jar name of the files,
\* computed once
KnownByName == [name \in NamesOfRuns |-> lookup_mod_info(name)]

KnownByJar == [jar \in ServerJarNames |-> lookup_by_jar(jar)]

\* lines 658-663
ClientName(jar) == IF jar \in DOMAIN indexed THEN indexed[jar].name ELSE JarToNameOf[jar]

ClientVersion(jar) ==
    IF jar \in DOMAIN indexed THEN indexed[jar].version ELSE VersionFromJarOf[jar]

\* lines 710-714
ServerName(jar) ==
    IF jar \in DOMAIN JAR_NAME_OVERRIDES THEN JAR_NAME_OVERRIDES[jar][1] ELSE JarToNameOf[jar]

ServerVersion(jar) ==
    IF jar \in DOMAIN JAR_NAME_OVERRIDES THEN JAR_NAME_OVERRIDES[jar][2]
    ELSE VersionFromJarOf[jar]

\* lines 716-722
ServerKnownInfo(name, jar) ==
    LET info == KnownByName[name]
    IN  IF info # PyNone THEN info ELSE KnownByJar[jar]

\* what the service and the disk may do during one call
ProbeOutcomes ==
    {[kind |-> "error", models |-> <<>>]}
    \cup {[kind |-> "models", models |-> m] :
            m \in {<<>>, <<"llama3:8b">>, <<"llama3:8b", "qwen2.5:14b-instruct">>}}

Generated(side, req) == [desc |-> "A mod.", side |-> side, req |-> req]

RawResponses ==
    {[kind |-> k, data |-> <<>>] : k \in {"fail", "text", "null"}}
    \cup {[kind |-> "object", data |-> d] :
            d \in {Generated("client", "library"),
                   Generated("sideways", "maybe"),
                   [desc |-> "A mod.", side |-> "both"],
                   [desc |-> "A mod.", side |-> "server", req |-> "required",
                    guide_section |-> "travel", guide_name |-> "Qwerty"]}}

Environments == [probe : ProbeOutcomes, raw : RawResponses, written : BOOLEAN]

\* the call of ai_get_mod_info in a loop body and what follows it
AiStep(call, entry) ==
    /\ aiCacheFile' = call.file
    /\ ollama_ok' = call.ok
    /\ aiCalls' = aiCalls + 1
    /\ aiProbes' = aiProbes + call.probes
    /\ aiTags' = IF call.probes = 0 THEN aiTags ELSE call.tags
    /\ aiGenerates' = aiGenerates + call.generates
    /\ aiLast' = [key |-> call.key, hit |-> call.hit, result |-> call.result,
                  fields |-> call.fields]
    /\ IF call.raised \/ DescMissing(call.result)
       THEN mdPc' = "raised" /\ UNCHANGED <<mdIdx, clientMods, serverMods>>
       ELSE /\ mdIdx' = mdIdx + 1
            /\ UNCHANGED mdPc
            /\ IF mdPc = "client"
               THEN clientMods' = Append(clientMods, entry) /\ UNCHANGED serverMods
               ELSE serverMods' = Append(serverMods, entry) /\ UNCHANGED clientMods

NoAiStep == UNCHANGED <<aiCacheFile, ollama_ok, aiCalls, aiProbes, aiTags, aiGenerates, aiLast>>

\* one iteration of the loop of collect_client_mods
CM_Jar ==
    /\ mdPc = "client"
    /\ mdIdx <= Len(clientFiles)
    /\ LET jar     == clientFiles[mdIdx]
           name    == ClientName(jar)
           version == ClientVersion(jar)
           known   == KnownByName[name]
       IN  IF ~EndsWith(jar, ".jar")
           THEN mdIdx' = mdIdx + 1 /\ NoAiStep /\ UNCHANGED <<clientMods, serverMods, mdPc>>
           ELSE IF known # PyNone
           THEN /\ clientMods' = Append(clientMods, ModEntry(name, version, jar, known, "client"))
                /\ mdIdx' = mdIdx + 1
                /\ NoAiStep
                /\ UNCHANGED <<serverMods, mdPc>>
           ELSE \E env \in Environments :
                   LET call == ai_get_mod_info(aiCacheFile, ollama_ok, name, "client", env)
                   IN  AiStep(call, ModEntry(name, version, jar, call.result, "client"))
    /\ UNCHANGED <<clientFiles, indexed, serverFiles, packDir, datapacks>>
    /\ UNCHANGED exceptMd

\* collect_client_mods returns; generate_html calls collect_server_mods
CM_Return ==
    /\ mdPc = "client"
    /\ mdIdx > Len(clientFiles)
    /\ mdPc' = "server"
    /\ mdIdx' = 1
    /\ NoAiStep
    /\ UNCHANGED <<clientFiles, indexed, serverFiles, packDir, datapacks, clientMods, serverMods>>
    /\ UNCHANGED exceptMd

\* one iteration of the loop of collect_server_mods
SM_Jar ==
    /\ mdPc = "server"
    /\ mdIdx <= Len(serverFiles)
    /\ LET jar     == serverFiles[mdIdx]
           name    == ServerName(jar)
           version == ServerVersion(jar)
           known   == ServerKnownInfo(name, jar)
       IN  IF ~EndsWith(jar, ".jar")
           THEN mdIdx' = mdIdx + 1 /\ NoAiStep /\ UNCHANGED <<clientMods, serverMods, mdPc>>
           ELSE IF known # PyNone
           THEN /\ serverMods' = Append(serverMods, ModEntry(name, version, jar, known, "server"))
                /\ mdIdx' = mdIdx + 1
                /\ NoAiStep
                /\ UNCHANGED <<clientMods, mdPc>>
           ELSE \E env \in Environments :
                   LET call == ai_get_mod_info(aiCacheFile, ollama_ok, name, "server", env)
                   IN  AiStep(call, ModEntry(name, version, jar, call.result, "server"))
    /\ UNCHANGED <<clientFiles, indexed, serverFiles, packDir, datapacks>>
    /\ UNCHANGED exceptMd

SM_Return ==
    /\ mdPc = "server"
    /\ mdIdx > Len(serverFiles)
    /\ mdPc' = "done"
    /\ NoAiStep
    /\ UNCHANGED <<clientFiles, indexed, serverFiles, packDir, datapacks, mdIdx, clientMods, serverMods>>
    /\ UNCHANGED exceptMd

(***************************************************************************)
(* Directories, index metadata and cache files of the runs                 *)
(***************************************************************************)
MaxJars == 2

Directories == {SortedNames(d) : d \in {e \in SUBSET JarNames : Cardinality(e) <= MaxJars}}

ServerDirectories ==
    {SortedNames(d) : d \in {e \in SUBSET ServerJarNames : Cardinality(e) <= MaxJars}}

CachedRecords ==
    {Put(Generated("server", "optional"), "guide_section", Null),
     Put(Generated("client", "optional"), "guide_section", "ui"),
     Generated("sideways", "optional"),
     [desc |-> "A mod.", req |-> "library"],
     [side |-> "client", req |-> "library"],
     <<>>}

\* a record of the datapacks section
CachedPack == [desc |-> "A pack.", guide_name |-> "Pack"]

CacheFiles ==
    {[kind |-> k, data |-> <<>>] : k \in {"missing", "garbage"}}
    \cup {[kind |-> "json", data |-> [mods |-> <<>>, datapacks |-> <<>>]]}
    \cup {[kind |-> "json", data |-> [mods |-> ("qwertymod" :> r), datapacks |-> <<>>]] :
            r \in CachedRecords}
    \cup {[kind |-> "json",
           data |-> [mods |-> ("othermod" :> Generated("both", "optional")),
                     datapacks |-> (p :> CachedPack)]] :
            p \in {"otherpack"}}

\* the cache files of the runs of collect_datapacks
PackCacheFiles ==
    CacheFiles
    \cup {[kind |-> "json",
           data |-> [mods |-> <<>>,
                     datapacks |-> ("terralith v2.5.8 (mc 1.21)" :> CachedPack)]]}

\* the entries DATAPACK_DIR can hold, sorted
GenPackEntries == <<"Graves v3.0", "Terralith v2.5.8 (MC 1.21)", "pack.zip">>

\* DATAPACK_DIR: missing, or a directory with some of the entries
GenPackDirs ==
    {[isdir |-> FALSE, entries |-> <<>>]}
    \cup {[isdir |-> TRUE,
           entries |-> [i \in 1..n |-> [entry |-> GenPackEntries[i + k], isdir |-> i + k < 3]]] :
            <<n, k>> \in {<<0, 0>>, <<1, 1>>, <<3, 0>>}}

MD_Init ==
    /\ clientFiles \in Directories
    /\ serverFiles \in ServerDirectories
    /\ indexed \in IndexSets
    /\ aiCacheFile \in CacheFiles
    /\ ollama_ok = "None"
    /\ aiCalls = 0
    /\ aiProbes = 0
    /\ aiTags = NotAsked
    /\ aiGenerates = 0
    /\ aiLast = [key |-> "", hit |-> FALSE, result |-> PyNone, fields |-> {}]
    /\ mdIdx = 1
    /\ clientMods = <<>>
    /\ serverMods = <<>>
    /\ mdPc = "client"
    /\ packDir = [isdir |-> FALSE, entries |-> <<>>]
    /\ datapacks = <<>>

ModsInit == MD_Init /\ SP_Idle /\ GR_Idle /\ PL_Idle /\ FT_Idle /\ CF_Idle /\ LK_Idle /\ TH_Idle

ModsNext == CM_Jar \/ CM_Return \/ SM_Jar \/ SM_Return

SpecMods == ModsInit /\ [][ModsNext]_vars

(***************************************************************************)
(* Properties of the add-on collectors (SpecMods)                          *)
(***************************************************************************)
\* the records the cache file holds, by key
CachedMods(file) == Get(load_ai_cache(file), "mods", <<>>)

\* C1: a call of ai_get_mod_info for a key the cache file holds returns the
\* cached record itself, sends no request to /api/tags and none to
\* /api/generate, and leaves the file as it is, whatever the service would do.
C1_CachedRecordReturned ==
    [][(aiCalls' = aiCalls + 1 /\ aiLast'.key \in DOMAIN CachedMods(aiCacheFile))
          => /\ aiLast'.result = CachedMods(aiCacheFile)[aiLast'.key]
             /\ aiProbes' = aiProbes
             /\ aiGenerates' = aiGenerates
             /\ ollama_ok' = ollama_ok
             /\ aiCacheFile' = aiCacheFile]_vars

\* C1, its case: the client scan had a record generated and cached, and the
\* server scan asked for the same key and got that record
C1_Witness ==
    /\ aiCalls = 2
    /\ aiGenerates = 1
    /\ aiProbes = 1
    /\ aiLast.hit
    /\ aiLast.key = "qwertymod"
    /\ aiLast.result = CachedMods(aiCacheFile)["qwertymod"]
    /\ Len(serverMods) > 0
    /\ serverMods[Len(serverMods)].desc = "A mod."

InClientSides(m) == m.side \in {"client", "both"}

InServerSides(m) == m.side \in {"server", "both"}

\* C2: every record of collect_client_mods has side client or both, every
\* record of collect_server_mods has side server or both, whatever side
\* the knowledge base, the cache or the service gave.
C2_SideFitsContext ==
    /\ \A i \in 1..Len(clientMods) : InClientSides(clientMods[i])
    /\ \A i \in 1..Len(serverMods) : InServerSides(serverMods[i])

\* C2, its case: a client jar the knowledge base calls server-side, and a
\* server jar whose cached record says client
C2_Witness ==
    /\ \E i \in 1..Len(clientMods) :
          /\ KnownByName[clientMods[i].name] # PyNone
          /\ KnownByName[clientMods[i].name].side = "server"
          /\ clientMods[i].side = "both"
    /\ \E i \in 1..Len(serverMods) :
          /\ serverMods[i].name = "qwertymod"
          /\ aiLast.hit
          /\ "side" \in DOMAIN aiLast.result
          /\ aiLast.result["side"] = "client"
          /\ serverMods[i].side = "both"

OverrideApplied(m) == <<m.name, m.version>> = JAR_NAME_OVERRIDES[m.jar]

\* C3: a jar whose file name is a key of JAR_NAME_OVERRIDES gets exactly the
\* name and the version of the table, in the server scan and in the client scan
\* of jars without index metadata.
C3_OverridesApplied ==
    /\ \A i \in 1..Len(serverMods) :
          serverMods[i].jar \in DOMAIN JAR_NAME_OVERRIDES => OverrideApplied(serverMods[i])
    /\ \A i \in 1..Len(clientMods) :
          (clientMods[i].jar \in DOMAIN JAR_NAME_OVERRIDES /\ clientMods[i].jar \notin DOMAIN indexed)
             => OverrideApplied(clientMods[i])

\* C3 for the server scan alone
C3_ServerOverridesApplied ==
    \A i \in 1..Len(serverMods) :
        serverMods[i].jar \in DOMAIN JAR_NAME_OVERRIDES => OverrideApplied(serverMods[i])

\* an override has been applied in the server scan
C3_ServerCase ==
    \E i \in 1..Len(serverMods) :
        /\ serverMods[i].jar = "Explorify v1.6.4 f15-88.mod.jar"
        /\ serverMods[i].name = "Explorify"
        /\ serverMods[i].version = "1.6.4"

(***************************************************************************)
(* collect_players: the join of usercache.json and the stats files, the   *)
(* playtime filter, the deduplication by name and the sort.  Of a record  *)
(* the fields name, uuid, is_op, play_time and deaths are kept; the        *)
(* counters of the stats files are integers.  The set whitelisted (lines   *)
(* 823-829) is read by nothing.                                            *)
(***************************************************************************)
\* a stats file json.load cannot read
StatsUnreadable == [unreadable |-> TRUE]

\* lines 816-820: the uuids of the entries of ops.json, the same in every run
ops ==
    {"0a1b2c3d-0000-4000-8000-000000000001", "0a1b2c3d-0000-4000-8000-000000000004"}

\* lines 894-925: the counters after the try block; without a file, or with
\* one that cannot be read, they keep their initial 0
StatsOf(uuid) ==
    IF uuid \in DOMAIN statsFiles /\ statsFiles[uuid] # StatsUnreadable
    THEN statsFiles[uuid]
    ELSE [play_time |-> 0, deaths |-> 0]

\* lines 860-963: the record of a uuid
PlayerOf(uuid) ==
    [name |-> IF uuid \in DOMAIN uuid_to_name THEN uuid_to_name[uuid]
              ELSE SubSeq(uuid, 1, IF Len(uuid) < 8 THEN Len(uuid) ELSE 8) \o "...",
     uuid |-> uuid,
     is_op |-> uuid \in ops,
     play_time |-> StatsOf(uuid).play_time,
     deaths |-> StatsOf(uuid).deaths]

\* a filter that keeps the records without playtime
HasPlaytimeOrNone(p) == p.play_time >= 0

\* line 966
HasPlaytime(p) == p.play_time > 0

\* a mutant of Replaces: the playtimes are not compared, the later record wins
ReplacesAlways(key, p) == TRUE

\* line 972
Replaces(key, p) == key \notin DOMAIN seen \/ p.play_time > seen[key].play_time

\* players.sort(key=lambda p: p["play_time"], reverse=True); the sort is stable
SortByPlaytime(ps) ==
    LET rank(i) == Cardinality({j \in 1..Len(ps) :
                                  \/ ps[j].play_time > ps[i].play_time
                                  \/ (ps[j].play_time = ps[i].play_time /\ j < i)}) + 1
    IN  [r \in 1..Len(ps) |-> ps[CHOOSE i \in 1..Len(ps) : rank(i) = r]]

\* lines 809-813 and 852-856: the uuids of usercache.json and of the stats
\* files; json.load of usercache.json is in no try block
PL_Load ==
    /\ plPc = "load"
    /\ IF usercacheFile.kind = "garbage"
       THEN /\ plPc' = "raised"
            /\ plError' = "JSONDecodeError"
            /\ UNCHANGED <<uuid_to_name, plUuids, plIdx>>
       ELSE /\ uuid_to_name' = usercacheFile.data
            /\ plUuids' = SortedNames(DOMAIN usercacheFile.data \cup DOMAIN statsFiles)
            /\ plIdx' = 1
            /\ plPc' = "build"
            /\ UNCHANGED plError
    /\ UNCHANGED <<usercacheFile, statsFiles, plJoined, players, seen, seenKeys>>
    /\ UNCHANGED exceptPl

\* lines 860-963: one iteration of the loop over sorted(all_uuids)
PL_Build ==
    /\ plPc = "build"
    /\ plIdx <= Len(plUuids)
    /\ players' = Append(players, PlayerOf(plUuids[plIdx]))
    /\ plJoined' = Append(plJoined, PlayerOf(plUuids[plIdx]))
    /\ plIdx' = plIdx + 1
    /\ UNCHANGED <<usercacheFile, uuid_to_name, statsFiles, plError, plUuids, seen, seenKeys, plPc>>
    /\ UNCHANGED exceptPl

\* line 966
PL_Filter ==
    /\ plPc = "build"
    /\ plIdx > Len(plUuids)
    /\ players' = SelectSeq(players, HasPlaytime)
    /\ plIdx' = 1
    /\ plPc' = "dedup"
    /\ UNCHANGED <<usercacheFile, uuid_to_name, statsFiles, plError, plUuids, plJoined, seen,
                   seenKeys>>
    /\ UNCHANGED exceptPl

\* lines 970-973: one iteration of the loop over players
PL_Dedup ==
    /\ plPc = "dedup"
    /\ plIdx <= Len(players)
    /\ LET p   == players[plIdx]
           key == Lower(p.name)
       IN  IF Replaces(key, p)
           THEN /\ seen' = Put(seen, key, p)
                /\ seenKeys' = IF key \in DOMAIN seen THEN seenKeys ELSE Append(seenKeys, key)
           ELSE UNCHANGED <<seen, seenKeys>>
    /\ plIdx' = plIdx + 1
    /\ UNCHANGED <<usercacheFile, uuid_to_name, statsFiles, plError, plUuids, plJoined, players,
                   plPc>>
    /\ UNCHANGED exceptPl

\* lines 974-978
PL_Sort ==
    /\ plPc = "dedup"
    /\ plIdx > Len(players)
    /\ players' = SortByPlaytime([i \in 1..Len(seenKeys) |-> seen[seenKeys[i]]])
    /\ plPc' = "done"
    /\ UNCHANGED <<usercacheFile, uuid_to_name, statsFiles, plError, plUuids, plIdx, plJoined,
                   seen, seenKeys>>
    /\ UNCHANGED exceptPl

(***************************************************************************)
(* The files of the runs of collect_players                                *)
(***************************************************************************)
MaxPlayers == 2

Uuids == {"0a1b2c3d-0000-4000-8000-00000000000" \o d : d \in {"1", "2", "3", "4"}}

PlayerNames == {"Steve", "steve", "Alex"}

Counters == {[play_time |-> 0, deaths |-> 1], [play_time |-> 10, deaths |-> 1],
             [play_time |-> 50, deaths |-> 2], [play_time |-> 50, deaths |-> 3]}

UuidSets == {u \in SUBSET Uuids : Cardinality(u) <= MaxPlayers}

\* usercache.json: missing, not JSON, or a list of entries with uuid and name
UsercacheFiles ==
    {[kind |-> k, data |-> <<>>] : k \in {"missing", "garbage"}}
    \cup {[kind |-> "list", data |-> d] : d \in UNION {[known -> PlayerNames] : known \in UuidSets}}

PL_Init ==
    /\ usercacheFile \in UsercacheFiles
    /\ uuid_to_name = <<>>
    /\ \E played \in UuidSets :
          /\ Cardinality(DOMAIN usercacheFile.data \cup played) <= MaxPlayers
          /\ statsFiles \in [played -> Counters \cup {StatsUnreadable}]
    /\ plError = ""
    /\ plUuids = <<>>
    /\ plIdx = 1
    /\ plJoined = <<>>
    /\ players = <<>>
    /\ seen = <<>>
    /\ seenKeys = <<>>
    /\ plPc = "load"

PlayersInit == PL_Init /\ SP_Idle /\ GR_Idle /\ MD_Idle /\ FT_Idle /\ CF_Idle /\ LK_Idle /\ TH_Idle

PlayersNext == PL_Load \/ PL_Build \/ PL_Filter \/ PL_Dedup \/ PL_Sort

SpecPlayers == PlayersInit /\ [][PlayersNext]_vars

(***************************************************************************)
(* Properties of collect_players (SpecPlayers)                             *)
(***************************************************************************)
\* C6: the list collect_players returns has no two records with the same
\* lower-cased name; the record kept for a name is one of the joined records
\* of that name, whole, and none of them has a greater playtime.
C6_DedupKeepsGreatest ==
    plPc = "done" =>
        /\ \A i \in 1..Len(players) : \A j \in 1..Len(players) :
              i # j => Lower(players[i].name) # Lower(players[j].name)
        /\ \A i \in 1..Len(players) :
              /\ \E j \in 1..Len(plJoined) : plJoined[j] = players[i]
              /\ \A j \in 1..Len(plJoined) :
                    Lower(plJoined[j].name) = Lower(players[i].name)
                       => plJoined[j].play_time <= players[i].play_time

\* C6, its case: two joined records of one name with playtimes 10 and 50, of
\* which the record with 50 is the only one returned
C6_Witness ==
    /\ plPc = "done"
    /\ Len(plJoined) = 2
    /\ plJoined[1].name # plJoined[2].name
    /\ Lower(plJoined[1].name) = Lower(plJoined[2].name)
    /\ plJoined[1].play_time = 50
    /\ plJoined[2].play_time = 10
    /\ players = <<plJoined[1]>>

(***************************************************************************)
(* The data fetcher (src/fetch_mod_data.py): names of add-ons and of data  *)
(* packs.  The fetcher has its own jar_to_name and its own override table. *)
(***************************************************************************)
UpperChar(c) ==
    IF c \in LowerSet THEN CharAt(UpperLetters, Find(LowerLetters, c)) ELSE c

IsLetter(c) == c \in LowerSet \cup UpperSet

\* str.title(): a letter after a letter is lower-cased, any other letter upper-cased
RECURSIVE TitleFrom(_, _)
TitleFrom(s, i) ==
    IF i > Len(s) THEN ""
    ELSE (IF IsLetter(At(s, i - 1)) THEN LowerChar(CharAt(s, i)) ELSE UpperChar(CharAt(s, i)))
         \o TitleFrom(s, i + 1)

Title(s) == TitleFrom(s, 1)

\* re.sub(r'\s+', ' ', s), from index i on
RECURSIVE CollapseSpaces(_, _)
CollapseSpaces(s, i) ==
    IF i > Len(s) THEN ""
    ELSE IF IsSpace(CharAt(s, i))
    THEN (IF IsSpace(At(s, i - 1)) THEN "" ELSE " ") \o CollapseSpaces(s, i + 1)
    ELSE CharAt(s, i) \o CollapseSpaces(s, i + 1)

\* the index after the characters of [\d.] that start at i
RECURSIVE DotDigitsEnd(_, _)
DotDigitsEnd(s, i) ==
    IF IsDigit(At(s, i)) \/ At(s, i) = "." THEN DotDigitsEnd(s, i + 1) ELSE i

\* [-_]\d+[\d.+a-zA-Z_-]*$ matches at i
NumberTailAt(s, i) ==
    /\ IsSeparator(At(s, i))
    /\ IsDigit(At(s, i + 1))
    /\ \A j \in (i + 2)..Len(s) : IsVersionChar(CharAt(s, j))

\* re.sub(r'[-_]mc\d+[\d.]*', '', s, flags=re.IGNORECASE), from index i on
RECURSIVE DropMc(_, _)
DropMc(s, i) ==
    IF i > Len(s) THEN ""
    ELSE IF McSuffixAt(s, i) THEN DropMc(s, DotDigitsEnd(s, i + 3))
    ELSE CharAt(s, i) \o DropMc(s, i + 1)

\* re.sub(r'[-_]<word>[-_]?', '-', s, flags=re.IGNORECASE), from index i on
RECURSIVE DashWord(_, _, _)
DashWord(s, i, word) ==
    IF i > Len(s) THEN ""
    ELSE IF WordSuffixAt(s, i, word)
    THEN LET e == i + Len(word) + 1
         IN  "-" \o DashWord(s, IF IsSeparator(At(s, e)) THEN e + 1 ELSE e, word)
    ELSE CharAt(s, i) \o DashWord(s, i + 1, word)

\* jar_to_name of fetch_mod_data.py
fetch_jar_to_name(jar) ==
    LET n0 == Replace(jar, ".jar", "")
        n1 == IF StartsWith(n0, "[Fabric]") THEN SubSeq(n0, 9, Len(n0)) ELSE n0
        n2 == CutAtFirst(n1, {i \in 1..Len(n1) : NumberTailAt(n1, i)})
        n3 == DropMc(n2, 1)
        n4 == DashWord(n3, 1, "fabric")
        n5 == DashWord(n4, 1, "forge")
        n6 == DashWord(n5, 1, "neoforge")
        n7 == Replace(Replace(n6, "-", " "), "_", " ")
    IN  Title(Strip(CollapseSpaces(n7, 1)))

\* v\d+[\d.]*\s*\(MC[^)]*\)$ matches at i
PackMcVersionAt(s, i) ==
    /\ At(s, i) = "v"
    /\ IsDigit(At(s, i + 1))
    /\ LET e == DotDigitsEnd(s, i + 1)
           f == CHOOSE k \in e..(Len(s) + 1) :
                    /\ \A j \in e..(k - 1) : IsSpace(CharAt(s, j))
                    /\ ~IsSpace(At(s, k))
       IN  /\ f + 3 <= Len(s)
           /\ SubSeq(s, f, f + 2) = "(MC"
           /\ CharAt(s, Len(s)) = ")"
           /\ \A j \in (f + 3)..(Len(s) - 1) : CharAt(s, j) # ")"

\* v\d+[\d.]*$ matches at i
PackVersionAt(s, i) ==
    /\ At(s, i) = "v"
    /\ IsDigit(At(s, i + 1))
    /\ DotDigitsEnd(s, i + 1) = Len(s) + 1

\* lines 350-351: the two re.sub, each followed by strip(); the white space
\* before the match is taken by the \s* of the pattern or by strip()
PackName(entry) ==
    LET n1 == Strip(CutAtFirst(entry, {i \in 1..Len(entry) : PackMcVersionAt(entry, i)}))
    IN  Strip(CutAtFirst(n1, {i \in 1..Len(n1) : PackVersionAt(n1, i)}))

\* lines 45-66
FETCH_JAR_NAME_OVERRIDES ==
     ("[Fabric]ctov-1.21.11-3.6.1a.jar" :> <<"ChoiceTheorem's Overhauled Village", "3.6.1a">>)
  @@ ("t_and_t-fabric-neoforge-1.13.8.jar" :> <<"Towns and Towers", "1.13.8">>)
  @@ ("NE-1.21.11-1.10.2.jar" :> <<"No Expensive", "1.10.2">>)
  @@ ("Origins-Legacy-1.11.4+1.21.11.jar" :> <<"Origins: Legacy", "1.11.4+1.21.11">>)
  @@ ("beaconrange-1.4.0-21.jar" :> <<"Beacon Range Extender", "1.4.0">>)
  @@ ("Explorify v1.6.4 f15-88.mod.jar" :> <<"Explorify", "1.6.4">>)
  @@ ("Incendium_1.21.x_v5.4.10.jar" :> <<"Incendium", "5.4.10">>)
  @@ ("Structory_1.21.x_v1.3.14.jar" :> <<"Structory", "1.3.14">>)
  @@ ("Structory_Towers_1.21.x_v1.0.15.jar" :> <<"Structory Towers", "1.0.15">>)
  @@ ("supermartijn642configlib-1.1.8-fabric-mc1.21.11.jar" :> <<"SuperMartijn642's Config Lib", "1.1.8">>)
  @@ ("supermartijn642corelib-1.1.20-fabric-mc1.21.11.jar" :> <<"SuperMartijn642's Core Lib", "1.1.20">>)
  @@ ("MoogsEndStructures-1.21-2.0.1.jar" :> <<"Moogs End Structures", "2.0.1">>)
  @@ ("MoogsMissingVillages-1.21-2.0.0.jar" :> <<"Moogs Missing Villages", "2.0.0">>)
  @@ ("MoogsNetherStructures-1.21-2.0.31.jar" :> <<"Moogs Nether Structures", "2.0.31">>)
  @@ ("MoogsSoaringStructures-1.21-2.0.2.jar" :> <<"Moogs Soaring Structures", "2.0.2">>)
  @@ ("MoogsTemplesReimagined-1.21-1.1.0.jar" :> <<"Moogs Temples Reimagined", "1.1.0">>)
  @@ ("MoogsVoyagerStructures-1.21-5.0.5.jar" :> <<"Moogs Voyager Structures", "5.0.5">>)
  @@ ("ForgeConfigAPIPort-v21.11.1-mc1.21.11-Fabric.jar" :> <<"Forge Config API Port", "21.11.1">>)
  @@ ("worldedit-mod-7.4.0.jar" :> <<"WorldEdit", "7.4.0">>)
  @@ ("AdditionalStructures-1.21-(v.5.2.0-FABRIC)-dev.jar" :> <<"Additional Structures", "5.2.0">>)

\* lines 70-87: add-on key -> slug or project id of the registry
MODRINTH_SLUG_MAP ==
     ("choicetheorem's overhauled village" :> "ct-overhaul-village")
  @@ ("towns and towers" :> "towns-and-towers")
  @@ ("no expensive" :> "no-expensive")
  @@ ("beacon range extender" :> "beacon-range-extender")
  @@ ("forge config api port" :> "forge-config-api-port")
  @@ ("moogs end structures" :> "mes-moogs-end-structures")
  @@ ("moogs missing villages" :> "mmv-moogs-missing-villages")
  @@ ("moogs nether structures" :> "mns-moogs-nether-structures")
  @@ ("moogs soaring structures" :> "mss-moogs-soaring-structures")
  @@ ("moogs temples reimagined" :> "mtr-moogs-temples-reimagined")
  @@ ("moogs voyager structures" :> "moogs-voyager-structures")
  @@ ("moogs structure lib" :> "moogs-structure-lib")
  @@ ("worldedit" :> "worldedit")
  @@ ("worldedit mod" :> "worldedit")
  @@ ("additional structures" :> "additional-structures")
  @@ ("c2me" :> "c2me-fabric")

\* lines 90-98
MANUAL_MOD_INFO ==
    "abridged" :> [title |-> "Abridged",
                   desc |-> "Shortens & cleans up server join/leave messages",
                   side |-> "server", req |-> "optional", source |-> "manual"]

(***************************************************************************)
(* The data fetcher: requests and JSON values.                             *)
(*                                                                         *)
(* A JSON value is [kind, data]: kind "none" is None, "object" holds a     *)
(* function from field names, "array" a sequence, "number" a number other  *)
(* than 0.  A response is a JSON value, or a failure of the request: kind  *)
(* is then one of FailureKinds.  The outcome of a call is the value it     *)
(* returns (exc = "") or the exception it raises.                          *)
(***************************************************************************)
FailureKinds == {"network_error", "timeout", "http_error", "unparsable"}

\* URLError, socket.timeout, HTTPError, json.JSONDecodeError
ExceptionOf(kind) ==
    CASE kind = "network_error" -> "URLError"
      [] kind = "timeout" -> "TimeoutError"
      [] kind = "http_error" -> "HTTPError"
      [] kind = "unparsable" -> "JSONDecodeError"

JsonNone == [kind |-> "none", data |-> <<>>]

Json(kind, data) == [kind |-> kind, data |-> data]

Returns(val) == [exc |-> "", val |-> val]

Raises(exc) == [exc |-> exc, val |-> JsonNone]

\* the truth value of a JSON value
IsTrue(j) == j.kind = "number" \/ (j.kind \in {"object", "array"} /\ j.data # <<>>)

\* a mutant of modrinth_get: a body that cannot be parsed is not caught
modrinth_get_decode_uncaught(resp) ==
    IF resp.kind = "unparsable" THEN Raises(ExceptionOf(resp.kind))
    ELSE IF resp.kind \in FailureKinds THEN Returns(JsonNone)
    ELSE Returns(resp)

\* _modrinth_get: every exception of the request and of json.loads is caught
modrinth_get(resp) ==
    IF resp.kind \in FailureKinds THEN Returns(JsonNone) ELSE Returns(resp)

\* modrinth_batch_projects
modrinth_batch_projects(ids, resp) ==
    IF ids = <<>> THEN Returns(Json("array", <<>>))
    ELSE LET r == modrinth_get(resp)
         IN  IF r.exc # "" \/ IsTrue(r.val) THEN r ELSE Returns(Json("array", <<>>))

\* modrinth_search
modrinth_search(resp) == modrinth_get(resp)

LowerAll(cats) == [i \in 1..Len(cats) |-> Lower(cats[i])]

Range(f) == {f[x] : x \in DOMAIN f}

\* _extract_modrinth_info
extract_modrinth_info(project) ==
    LET supported == {"required", "optional"}
        client    == Get(project, "client_side", "unknown")
        server    == Get(project, "server_side", "unknown")
        all_cats  == LowerAll(Get(project, "categories", <<>>))
                     \o LowerAll(Get(project, "additional_categories", <<>>))
    IN  [modrinth_id |-> Get(project, "id", ""),
         slug |-> Get(project, "slug", ""),
         title |-> Get(project, "title", ""),
         desc |-> Get(project, "description", ""),
         side |-> IF client \in supported /\ server \in supported THEN "both"
                  ELSE IF client \in supported THEN "client"
                  ELSE IF server \in supported THEN "server"
                  ELSE "both",
         req |-> IF "library" \in Range(all_cats) \/ "api" \in Range(all_cats)
                 THEN "library" ELSE "optional",
         categories |-> all_cats,
         icon_url |-> Get(project, "icon_url", ""),
         source_url |-> Get(project, "source_url", ""),
         wiki_url |-> Get(project, "wiki_url", ""),
         issues_url |-> Get(project, "issues_url", ""),
         source |-> "modrinth"]

\* info = _extract_modrinth_info(project); info["_jar"] = jar; info["_side_hint"] = side
RegistryRecord(project, m) ==
    Put(Put(extract_modrinth_info(project), "_jar", m.jar), "_side_hint", m.side)

OLLAMA_MODEL == "qwen2.5:14b"

\* _ollama_available of fetch_mod_data.py
fetch_ollama_available(resp) ==
    LET colon      == Find(OLLAMA_MODEL, ":")
        base_model == IF colon = 0 THEN OLLAMA_MODEL ELSE SubSeq(OLLAMA_MODEL, 1, colon - 1)
        models     == IF resp.kind = "object" THEN Get(resp.data, "models", <<>>) ELSE <<>>
    IN  /\ resp.kind = "object"
        /\ \E i \in 1..Len(models) : Contains(Get(models[i], "name", ""), base_model)

\* _ollama_query
ollama_query(resp) ==
    IF resp.kind \in FailureKinds THEN Returns(JsonNone) ELSE Returns(resp)

\* lines 523-529
Placeholder(name, side) ==
    [title |-> name, desc |-> "", side |-> side, req |-> "unknown", source |-> "unknown"]

\* ollama_mod_info
ollama_mod_info(name, side_hint, resp) ==
    LET data == ollama_query(resp).val
    IN  IF ~IsTrue(data) THEN Returns(JsonNone)
        ELSE IF data.kind = "number" THEN Raises("TypeError")
        ELSE IF "desc" \notin DOMAIN data.data THEN Returns(JsonNone)
        ELSE LET d1 == IF Get(data.data, "side", Null) \notin VALID_SIDES
                       THEN Put(data.data, "side",
                                IF side_hint # "unknown" THEN side_hint ELSE "both")
                       ELSE data.data
                 d2 == IF Get(d1, "req", Null) \notin VALID_REQS
                       THEN Put(d1, "req", "optional") ELSE d1
             IN  Returns(Json("object", Put(Put(d2, "source", "ollama"), "title", name)))

\* ollama_datapack_info
ollama_datapack_info(resp) ==
    LET data == ollama_query(resp).val
    IN  IF ~IsTrue(data) THEN Returns(JsonNone)
        ELSE IF data.kind = "number" THEN Raises("TypeError")
        ELSE IF "desc" \notin DOMAIN data.data THEN Returns(JsonNone)
        ELSE Returns(Json("object", Put(data.data, "source", "ollama")))

\* str.split(): the words of s, from index i on
RECURSIVE Words(_, _, _)
Words(s, i, word) ==
    IF i > Len(s) THEN (IF word = "" THEN <<>> ELSE <<word>>)
    ELSE IF IsSpace(CharAt(s, i))
    THEN (IF word = "" THEN <<>> ELSE <<word>>) \o Words(s, i + 1, "")
    ELSE Words(s, i + 1, word \o CharAt(s, i))

\* line 472
NameLower(name) == Replace(Replace(Lower(name), " ", ""), "'", "")

\* lines 474-476: the hits that match the name exactly or by containment
CloseHits(name, hits) ==
    LET name_lower == NameLower(name)
        slug_h(h)  == Replace(Lower(Get(h, "slug", "")), "-", "")
        title(h)   == Replace(Replace(Lower(Get(h, "title", "")), " ", ""), "'", "")
    IN  {i \in 1..Len(hits) :
            \/ slug_h(hits[i]) = name_lower
            \/ title(hits[i]) = name_lower
            \/ Contains(title(hits[i]), name_lower)
            \/ Contains(name_lower, title(hits[i]))}

\* line 484: words = name_lower.replace("'", "").split()
SearchWords(name) == Words(Replace(NameLower(name), "'", ""), 1, "")

\* a mutant of SearchWords: the words of the lowercased name
SearchWordsOfName(name) == Words(Replace(Lower(name), "'", ""), 1, "")

\* lines 481-487: the hits that hold the first two words
TwoWordHits(name, hits) ==
    LET slug_h(h) == Replace(Lower(Get(h, "slug", "")), "-", "")
        title(h)  == Replace(Lower(Get(h, "title", "")), " ", "")
        words     == SearchWords(name)
    IN  {i \in 1..Len(hits) :
            /\ Len(words) >= 2
            /\ \A w \in 1..2 : \/ Contains(title(hits[i]), words[w])
                               \/ Contains(slug_h(hits[i]), words[w])}

\* lines 471-488: the index of the best hit, 0 if there is none
BestHit(name, hits) ==
    IF CloseHits(name, hits) # {} THEN First(CloseHits(name, hits))
    ELSE IF TwoWordHits(name, hits) # {} THEN First(TwoWordHits(name, hits))
    ELSE 0

\* load_existing
load_existing(file) ==
    IF file.kind \in {"object", "array"} THEN file
    ELSE Json("object", [mods |-> <<>>, datapacks |-> <<>>, config_map |-> <<>>])


(***************************************************************************)
(* The data fetcher: main.  A step that sends a request takes the response *)
(* from the set of responses the request can get; the wall clock and the   *)
(* pause between two registry requests are not part of this model.         *)
(***************************************************************************)
\* the variables main reads only
ftInputs == <<ftIndexDir, ftServerDir, ftPackDir, ftConfigDirs, ftHitLists>>

Key(name) == Strip(Lower(name))

\* an entry of the log
Sent(call, key, resp) ==
    [call |-> call, key |-> key, out |-> IF resp.kind \in FailureKinds THEN "fail" ELSE "ok"]

\* the entry of GET /projects: ids is what json.dumps(ids) encodes (line 130)
BatchSent(ids, resp) ==
    [call |-> "batch", key |-> "", ids |-> ids,
     out |-> IF resp.kind \in FailureKinds THEN "fail" ELSE "ok"]

\* the entry of POST /api/generate: fields are the field names of the object
\* the response decoded to
GenerateSent(key, resp) ==
    [call |-> "generate", key |-> key,
     fields |-> IF resp.kind = "object" THEN DOMAIN resp.data ELSE {},
     out |-> IF resp.kind \in FailureKinds THEN "fail" ELSE "ok"]

\* the entry of GET /api/tags: models is what it listed, <<>> without an answer
ProbeSent(resp) ==
    [call |-> "probe", key |-> "",
     models |-> IF resp.kind = "object" THEN Get(resp.data, "models", <<>>) ELSE <<>>,
     out |-> IF resp.kind \in FailureKinds THEN "fail" ELSE "ok"]

\* the entry of GET /project/<project_id> of the best hit (line 492)
ProjectSent(key, path, resp) ==
    [call |-> "project", key |-> key, path |-> path,
     out |-> IF resp.kind \in FailureKinds THEN "fail" ELSE "ok"]

\* the entry of GET /project/<slug> of the alias table; got: it gave a project
\* (line 459)
SlugSent(key, resp, project) ==
    [call |-> "slug", key |-> key, got |-> project.exc = "" /\ IsTrue(project.val),
     out |-> IF resp.kind \in FailureKinds THEN "fail" ELSE "ok"]

\* all add-ons, resolved or not
StillMissingAll(mods) == client_mods \o server_mods

\* an exception leaves main; log holds the requests sent until then
FT_Raise(exc, log) ==
    /\ ftPc' = "raised"
    /\ ftError' = exc
    /\ ftLog' = log
    /\ UNCHANGED <<ftOutput, ftInputs, ftData, client_mods, server_mods, ftMissing, ftPacks,
                   ftIdx, has_ollama>>

\* the body of a for loop is done: data["mods"] is mods
FT_NextMod(mods, log) ==
    /\ ftData' = [ftData EXCEPT !.mods = mods]
    /\ ftLog' = log
    /\ ftIdx' = ftIdx + 1
    /\ UNCHANGED <<ftOutput, ftInputs, client_mods, server_mods, ftMissing, ftPacks,
                   has_ollama, ftError, ftPc>>

\* the body of the loop over packs is done: data["datapacks"] is packs
FT_NextPack(packs, log) ==
    /\ ftData' = [ftData EXCEPT !.datapacks = packs]
    /\ ftLog' = log
    /\ ftIdx' = ftIdx + 1
    /\ UNCHANGED <<ftOutput, ftInputs, client_mods, server_mods, ftMissing, ftPacks,
                   has_ollama, ftError, ftPc>>

\* lines 380-385
FT_Load ==
    /\ ftPc = "load"
    /\ LET existing == load_existing(ftOutput)
       IN  IF existing.kind # "object"
           THEN FT_Raise("AttributeError", ftLog)
           ELSE /\ ftData' = [mods |-> Get(existing.data, "mods", <<>>),
                              datapacks |-> Get(existing.data, "datapacks", <<>>),
                              config_map |-> <<>>]
                /\ ftPc' = "client"
                /\ UNCHANGED <<ftOutput, ftInputs, client_mods, server_mods, ftMissing,
                               ftPacks, ftIdx, has_ollama, ftLog, ftError>>
    /\ UNCHANGED exceptFt

\* lines 394-398: meta is what parse_pw_toml makes of the file f
ClientMod(f, meta) ==
    [name |-> Get(meta, "name", Replace(f, ".pw.toml", "")),
     jar |-> Get(meta, "filename", ""),
     mid |-> Get(meta, "update.modrinth.mod-id", ""),
     side |-> "client"]

\* lines 409-413
ServerMod(jar) ==
    [name |-> IF jar \in DOMAIN FETCH_JAR_NAME_OVERRIDES
              THEN FETCH_JAR_NAME_OVERRIDES[jar][1]
              ELSE fetch_jar_to_name(jar),
     jar |-> jar, mid |-> "", side |-> "server"]

\* the files of CLIENT_INDEX as parse_pw_toml reads them; a file it cannot
\* read gives {}
PwToml ==
    ("sodium.pw.toml" :> ([name |-> "Sodium", filename |-> "sodium-fabric-0.6.13.jar",
                           side |-> "client"]
                          @@ ("update.modrinth.mod-id" :> "AANobbMI")))
    @@ ("worldedit.pw.toml" :> [filename |-> "worldedit-mod-7.4.0.jar"])
    @@ ("readme.md" :> <<>>)

\* the function that maps keys[j] to vals[j], for j from i on
RECURSIVE Table(_, _, _)
Table(keys, vals, i) ==
    IF i > Len(keys) THEN <<>> ELSE (keys[i] :> vals[i]) @@ Table(keys, vals, i + 1)

\* the files the server directory of a run can hold
ServerFiles == {"notes.txt", "qwertymod-1.0.jar", "worldedit-mod-7.4.0.jar"}

\* ServerMod of each of them, computed once
ServerModOf ==
    LET jars == SortedNames(ServerFiles)
    IN  Table(jars, [i \in 1..Len(jars) |-> ServerMod(jars[i])], 1)

\* lines 389-400
FT_ScanClient ==
    /\ ftPc = "client"
    /\ LET files == SelectSeq(ftIndexDir, LAMBDA f : EndsWith(f, ".pw.toml"))
       IN  client_mods' = [i \in 1..Len(files) |-> ClientMod(files[i], PwToml[files[i]])]
    /\ ftPc' = "server"
    /\ UNCHANGED <<ftOutput, ftInputs, ftData, server_mods, ftMissing, ftPacks, ftIdx,
                   has_ollama, ftLog, ftError>>
    /\ UNCHANGED exceptFt

\* lines 404-415
FT_ScanServer ==
    /\ ftPc = "server"
    /\ LET jars == SelectSeq(ftServerDir, LAMBDA f : EndsWith(f, ".jar"))
       IN  server_mods' = [i \in 1..Len(jars) |-> ServerModOf[jars[i]]]
    /\ ftPc' = "manual"
    /\ UNCHANGED <<ftOutput, ftInputs, ftData, client_mods, ftMissing, ftPacks, ftIdx,
                   has_ollama, ftLog, ftError>>
    /\ UNCHANGED exceptFt

\* lines 421-424
ManualOverrides(mods) ==
    [key \in DOMAIN mods \cup DOMAIN MANUAL_MOD_INFO |->
        IF key \in DOMAIN mods THEN mods[key] ELSE MANUAL_MOD_INFO[key]]

FT_Manual ==
    /\ ftPc = "manual"
    /\ ftData' = [ftData EXCEPT !.mods = ManualOverrides(ftData.mods)]
    /\ ftPc' = "batch"
    /\ UNCHANGED <<ftOutput, ftInputs, client_mods, server_mods, ftMissing, ftPacks, ftIdx,
                   has_ollama, ftLog, ftError>>
    /\ UNCHANGED exceptFt

\* the projects of the registry
Projects ==
    <<[id |-> "AANobbMI", slug |-> "sodium", title |-> "Sodium",
       description |-> "The fastest rendering optimization mod",
       client_side |-> "required", server_side |-> "unsupported",
       categories |-> <<"optimization">>, icon_url |-> "https://cdn.modrinth.com/sodium.png"],
      [id |-> "1u6JkXh5", slug |-> "worldedit", title |-> "WorldEdit",
       description |-> "An in-game map editor",
       client_side |-> "optional", server_side |-> "required",
       categories |-> <<"utility">>, additional_categories |-> <<"Library">>],
      [id |-> "QWERTY01", slug |-> "qwerty-mod", title |-> "Qwerty Mod",
       client_side |-> "unsupported", server_side |-> "required",
       categories |-> <<>>]>>

\* what the registry answers to GET /project/<path>, path a slug or an id:
\* the project, or a failure (a path it does not know gives 404)
ProjectResponses(path) ==
    {Json(k, <<>>) : k \in FailureKinds}
    \cup {Json("object", Projects[i]) :
            i \in {j \in 1..Len(Projects) : path \in {Projects[j].id, Projects[j].slug}}}

\* what the registry answers to GET /projects?ids=...: some of the projects
\* asked for, or a failure
BatchResponses(ids) ==
    {Json(k, <<>>) : k \in FailureKinds}
    \cup {Json("array", SelectSeq(Projects, LAMBDA p : p.id \in found)) :
            found \in SUBSET (Range(ids) \cap {Projects[i].id : i \in 1..Len(Projects)})}

\* the ranked hits of a search
HitLists ==
    {<<>>,
     <<[project_id |-> "OTHER001", slug |-> "other-thing", title |-> "Other Thing"],
       [project_id |-> "QWERTY01", slug |-> "qwerty-mod", title |-> "Qwerty Mod"],
       [project_id |-> "1u6JkXh5", slug |-> "worldedit", title |-> "WorldEdit"]>>,
     <<[slug |-> "qwertymod", title |-> "Qwertymod"],
       [slug |-> "world-edit", title |-> "World Edit"]>>}

\* what the registry answers to GET /search
SearchResponses ==
    {Json(k, <<>>) : k \in FailureKinds}
    \cup {Json("object", [hits |-> h]) : h \in ftHitLists}

\* what the generative service answers to GET /api/tags
ProbeResponses ==
    {Json(k, <<>>) : k \in FailureKinds}
    \cup {Json("object", [models |-> m]) :
            m \in {<<>>, <<[name |-> "llama3:8b"]>>,
                   <<[name |-> "llama3:8b"], [name |-> "qwen2.5:14b-instruct"]>>}}

\* what the generative service answers to POST /api/generate: the value its
\* "response" text decodes to
GenerateResponses ==
    {Json(k, <<>>) : k \in FailureKinds \cup {"number"}}
    \cup {Json("object", d) :
            d \in {[desc |-> "A mod.", side |-> "server", req |-> "library"],
                   [desc |-> "A mod."],
                   [side |-> "both", req |-> "optional"]}}

\* id_to_project = {p["id"]: p for p in projects}
IdToProject(projects) ==
    [id \in {projects[i].id : i \in 1..Len(projects)} |->
        projects[CHOOSE i \in 1..Len(projects) :
                    /\ projects[i].id = id
                    /\ \A j \in (i + 1)..Len(projects) : projects[j].id # id]]

\* lines 434-443, from the i-th client add-on on
RECURSIVE BatchLoop(_, _, _)
BatchLoop(mods, i, id_to_project) ==
    IF i > Len(client_mods) THEN mods
    ELSE LET m == client_mods[i]
         IN  BatchLoop(IF m.mid # "" /\ m.mid \in DOMAIN id_to_project
                       THEN Put(mods, Key(m.name), RegistryRecord(id_to_project[m.mid], m))
                       ELSE mods,
                       i + 1, id_to_project)

\* lines 447 and 505
StillMissing(mods) ==
    SelectSeq(client_mods \o server_mods, LAMBDA m : Key(m.name) \notin DOMAIN mods)

\* lines 427-447
FT_Batch ==
    /\ ftPc = "batch"
    /\ LET with_id       == SelectSeq(client_mods, LAMBDA m : m.mid # "")
           modrinth_ids  == [i \in 1..Len(with_id) |-> with_id[i].mid]
       IN  IF modrinth_ids = <<>>
           THEN /\ ftMissing' = StillMissing(ftData.mods)
                /\ ftIdx' = 1
                /\ ftPc' = "missing"
                /\ UNCHANGED <<ftOutput, ftInputs, ftData, client_mods, server_mods,
                               ftPacks, has_ollama, ftLog, ftError>>
           ELSE \E resp \in BatchResponses(modrinth_ids) :
                  LET projects == modrinth_batch_projects(modrinth_ids, resp)
                      log      == Append(ftLog, BatchSent(modrinth_ids, resp))
                  IN  IF projects.exc # "" THEN FT_Raise(projects.exc, log)
                      ELSE LET mods == BatchLoop(ftData.mods, 1, IdToProject(projects.val.data))
                           IN  /\ ftData' = [ftData EXCEPT !.mods = mods]
                               /\ ftMissing' = StillMissing(mods)
                               /\ ftIdx' = 1
                               /\ ftLog' = log
                               /\ ftPc' = "missing"
                               /\ UNCHANGED <<ftOutput, ftInputs, client_mods, server_mods,
                                              ftPacks, has_ollama, ftError>>
    /\ UNCHANGED exceptFt

\* lines 468-501: the search for the add-on m and the fetch of the best hit
SearchStep(m, log) ==
    \E resp \in SearchResponses :
      LET result == modrinth_search(resp)
          log2   == Append(log, Sent("search", Key(m.name), resp))
          hits   == IF result.val.kind = "object" THEN Get(result.val.data, "hits", <<>>)
                    ELSE <<>>
          best   == BestHit(m.name, hits)
      IN  IF result.exc # "" THEN FT_Raise(result.exc, log2)
          ELSE IF best = 0 THEN FT_NextMod(ftData.mods, log2)
          ELSE IF "project_id" \notin DOMAIN hits[best] THEN FT_Raise("KeyError", log2)
          ELSE \E resp3 \in ProjectResponses(hits[best].project_id) :
                 LET project == modrinth_get(resp3)
                     log3    == Append(log2, ProjectSent(Key(m.name), hits[best].project_id,
                                                         resp3))
                 IN  IF project.exc # "" THEN FT_Raise(project.exc, log3)
                     ELSE IF IsTrue(project.val)
                     THEN FT_NextMod(Put(ftData.mods, Key(m.name),
                                         RegistryRecord(project.val.data, m)), log3)
                     ELSE FT_NextMod(ftData.mods, log3)

\* lines 451-501: one iteration of the loop over missing
FT_Lookup ==
    /\ ftPc = "missing"
    /\ ftIdx <= Len(ftMissing)
    /\ LET m    == ftMissing[ftIdx]
           slug == Get(MODRINTH_SLUG_MAP, Key(m.name), "")
       IN  IF Key(m.name) \in DOMAIN ftData.mods THEN FT_NextMod(ftData.mods, ftLog)
           ELSE IF slug = "" THEN SearchStep(m, ftLog)
           ELSE \E resp \in ProjectResponses(slug) :
                  LET project == modrinth_get(resp)
                      log     == Append(ftLog, SlugSent(Key(m.name), resp, project))
                  IN  IF project.exc # "" THEN FT_Raise(project.exc, log)
                      ELSE IF IsTrue(project.val)
                      THEN FT_NextMod(Put(ftData.mods, Key(m.name),
                                          RegistryRecord(project.val.data, m)), log)
                      ELSE SearchStep(m, log)
    /\ UNCHANGED exceptFt

\* lines 505-515
FT_Probe ==
    /\ ftPc = "missing"
    /\ ftIdx > Len(ftMissing)
    /\ \E resp \in ProbeResponses :
          /\ has_ollama' = fetch_ollama_available(resp)
          /\ ftMissing' = IF has_ollama' THEN StillMissing(ftData.mods) ELSE <<>>
          /\ ftLog' = Append(ftLog, ProbeSent(resp))
    /\ ftIdx' = 1
    /\ ftPc' = "ollama"
    /\ UNCHANGED <<ftOutput, ftInputs, ftData, client_mods, server_mods, ftPacks, ftError>>
    /\ UNCHANGED exceptFt

\* lines 516-530: one iteration of the loop over still_missing
FT_Ollama ==
    /\ ftPc = "ollama"
    /\ ftIdx <= Len(ftMissing)
    /\ LET m == ftMissing[ftIdx]
       IN  \E resp \in GenerateResponses :
             LET info == ollama_mod_info(m.name, m.side, resp)
                 log  == Append(ftLog, GenerateSent(Key(m.name), resp))
             IN  IF info.exc # "" THEN FT_Raise(info.exc, log)
                 ELSE FT_NextMod(Put(ftData.mods, Key(m.name),
                                     IF IsTrue(info.val) THEN info.val.data
                                     ELSE Placeholder(m.name, m.side)), log)
    /\ UNCHANGED exceptFt

\* the entries the data pack directory of a run can hold, sorted
PackEntries == <<"Terralith v2.5.8 (MC 1.21)", "pack.zip">>

\* PackName of each of them, computed once
PackNameOf == Table(PackEntries, [i \in 1..Len(PackEntries) |-> PackName(PackEntries[i])], 1)

\* scan_datapacks: dir is sorted(os.listdir(DATAPACK_DIR)) with os.path.isdir of each
scan_datapacks(dir) ==
    LET folders == SelectSeq(dir, LAMBDA e : e.isdir)
    IN  [i \in 1..Len(folders) |->
            [folder |-> folders[i].entry, name |-> PackNameOf[folders[i].entry]]]

\* line 534
FT_ScanDatapacks ==
    /\ ftPc = "ollama"
    /\ ftIdx > Len(ftMissing)
    /\ ftPacks' = scan_datapacks(ftPackDir)
    /\ ftIdx' = 1
    /\ ftPc' = "datapacks"
    /\ UNCHANGED <<ftOutput, ftInputs, ftData, client_mods, server_mods, ftMissing,
                   has_ollama, ftLog, ftError>>
    /\ UNCHANGED exceptFt

\* lines 535-545: one iteration of the loop over packs
FT_Datapack ==
    /\ ftPc = "datapacks"
    /\ ftIdx <= Len(ftPacks)
    /\ LET key     == Key(ftPacks[ftIdx].name)
           unknown == [desc |-> "", source |-> "unknown"]
       IN  IF key \in DOMAIN ftData.datapacks THEN FT_NextPack(ftData.datapacks, ftLog)
           ELSE IF ~has_ollama THEN FT_NextPack(Put(ftData.datapacks, key, unknown), ftLog)
           ELSE \E resp \in GenerateResponses :
                  LET info == ollama_datapack_info(resp)
                      log  == Append(ftLog, Sent("generate_pack", key, resp))
                  IN  IF info.exc # "" THEN FT_Raise(info.exc, log)
                      ELSE FT_NextPack(Put(ftData.datapacks, key,
                                           IF IsTrue(info.val) THEN info.val.data
                                           ELSE unknown), log)
    /\ UNCHANGED exceptFt

\* lines 549-571: scan_configs of the two directories
FT_Configs ==
    /\ ftPc = "datapacks"
    /\ ftIdx > Len(ftPacks)
    /\ ftData' = [ftData EXCEPT !.config_map = [client |-> SortedNames(ftConfigDirs.client),
                                                server |-> SortedNames(ftConfigDirs.server)]]
    /\ ftPc' = "save"
    /\ UNCHANGED <<ftOutput, ftInputs, client_mods, server_mods, ftMissing, ftPacks, ftIdx,
                   has_ollama, ftLog, ftError>>
    /\ UNCHANGED exceptFt

\* line 573, save_data: open() raises OSError when the file cannot be written
FT_Save ==
    /\ ftPc = "save"
    /\ \/ /\ ftOutput' = Json("object", ftData)
          /\ ftPc' = "saved"
          /\ UNCHANGED ftError
       \/ /\ ftPc' = "raised"
          /\ ftError' = "OSError"
          /\ UNCHANGED ftOutput
    /\ UNCHANGED <<ftInputs, ftData, client_mods, server_mods, ftMissing, ftPacks, ftIdx,
                   has_ollama, ftLog>>
    /\ UNCHANGED exceptFt

(***************************************************************************)
(* The files and directories of the runs of the data fetcher               *)
(***************************************************************************)
MaxAddons == 2

IndexFiles == DOMAIN PwToml

\* the client index and the server directory hold at most MaxAddons files
AddonDirs ==
    {[index |-> SortedNames(i), server |-> SortedNames(s)] :
        <<i, s>> \in {d \in (SUBSET IndexFiles) \X (SUBSET ServerFiles) :
                        Cardinality(d[1]) + Cardinality(d[2]) <= MaxAddons}}

PackDirs ==
    {<<>>, [i \in 1..Len(PackEntries) |-> [entry |-> PackEntries[i], isdir |-> i = 1]]}

ConfigDirs ==
    {[client |-> {"sodium-options.json", "iris.properties"},
      server |-> {"worldedit/worldedit.properties"}]}

\* mod_data.json: missing, not JSON, a JSON array, or the output of an earlier run
OutputFiles ==
    {Json(k, <<>>) : k \in {"missing", "garbage", "array"}}
    \cup {Json("object",
               [mods |-> ("qwertymod" :> Placeholder("Qwertymod", "server")),
                datapacks |-> ("terralith" :> [desc |-> "", source |-> "unknown"]),
                config_map |-> <<>>]),
          Json("object",
               [mods |-> ("worldedit" :> [title |-> "worldedit", desc |-> "A map editor.",
                                          side |-> "both", req |-> "optional",
                                          source |-> "ollama"])
                         @@ ("sodium" :> [title |-> "Sodium", desc |-> "Written by hand.",
                                          side |-> "client", req |-> "optional",
                                          source |-> "ollama"])])}

FT_Init ==
    /\ ftOutput \in OutputFiles
    /\ \E d \in AddonDirs : ftIndexDir = d.index /\ ftServerDir = d.server
    /\ ftPackDir \in PackDirs
    /\ ftConfigDirs \in ConfigDirs
    /\ ftHitLists = HitLists
    /\ ftData = <<>>
    /\ client_mods = <<>>
    /\ server_mods = <<>>
    /\ ftMissing = <<>>
    /\ ftPacks = <<>>
    /\ ftIdx = 1
    /\ has_ollama = FALSE
    /\ ftLog = <<>>
    /\ ftError = ""
    /\ ftPc = "load"

FetchInit == FT_Init /\ SP_Idle /\ GR_Idle /\ MD_Idle /\ PL_Idle /\ CF_Idle /\ LK_Idle /\ TH_Idle

FetchNext ==
    \/ FT_Load \/ FT_ScanClient \/ FT_ScanServer \/ FT_Manual \/ FT_Batch \/ FT_Lookup
    \/ FT_Probe \/ FT_Ollama \/ FT_ScanDatapacks \/ FT_Datapack \/ FT_Configs \/ FT_Save

SpecFetch == FetchInit /\ [][FetchNext]_vars

(***************************************************************************)
(* Properties of the data fetcher (SpecFetch)                              *)
(***************************************************************************)
\* all_mods
AllMods == client_mods \o server_mods

\* data["mods"] before the first request: load_existing and the manual overrides
LoadedMods == ManualOverrides(Get(load_existing(ftOutput).data, "mods", <<>>))

\* a request of the given kind for the key is in the log after position i
SentAfter(i, calls, key) ==
    \E j \in (i + 1)..Len(ftLog) : ftLog[j].call \in calls /\ ftLog[j].key = key

\* what follows the failed request at position i of the log
FallsThrough(i) ==
    LET e == ftLog[i]
    IN  CASE e.call = "batch" ->
               \A k \in 1..Len(client_mods) :
                  client_mods[k].mid # ""
                     => \/ Key(client_mods[k].name) \in DOMAIN LoadedMods
                        \/ SentAfter(i, {"slug", "search"}, Key(client_mods[k].name))
          [] e.call = "slug" ->
               /\ i < Len(ftLog)
               /\ ftLog[i + 1].call = "search"
               /\ ftLog[i + 1].key = e.key
          [] e.call \in {"search", "project"} ->
               /\ SentAfter(i, {"probe"}, "")
               /\ has_ollama => \/ SentAfter(i, {"generate"}, e.key)
                                \/ /\ e.key \in DOMAIN ftData.mods
                                   /\ ftData.mods[e.key].source = "modrinth"
          [] e.call = "probe" ->
               /\ ~has_ollama
               /\ ~\E j \in (i + 1)..Len(ftLog) : ftLog[j].call \in {"generate", "generate_pack"}
          [] e.call = "generate" -> e.key \in DOMAIN ftData.mods
          [] e.call = "generate_pack" -> e.key \in DOMAIN ftData.datapacks

\* every scanned add-on went through the tiers: it has a record, or it was
\* searched for and the generative service is not available
AllProcessed ==
    \A k \in 1..Len(AllMods) :
       \/ Key(AllMods[k].name) \in DOMAIN ftData.mods
       \/ /\ ~has_ollama
          /\ SentAfter(0, {"search"}, Key(AllMods[k].name))

\* the exception that ended the run is not one of a failed request: save_data
\* could not write, or the output file is a JSON array, or the body of the
\* last response was decoded
OtherCause ==
    \/ ftError = "OSError"
    \/ ftOutput.kind = "array"
    \/ ftLog # <<>> /\ ftLog[Len(ftLog)].out = "ok"

\* the steps of main, in their order
Phases ==
    <<"load", "client", "server", "manual", "batch", "missing", "ollama", "datapacks",
      "save", "saved", "raised">>

Phase(pc) == CHOOSE i \in 1..Len(Phases) : Phases[i] = pc

\* a step of main goes on to a later phase, or to the next element of the
\* loop it is in
Advances ==
    \/ Phase(ftPc') > Phase(ftPc)
    \/ /\ ftPc' = ftPc
       /\ ftIdx' = ftIdx + 1
       /\ ftIdx <= Len(IF ftPc = "datapacks" THEN ftPacks ELSE ftMissing)
       /\ UNCHANGED <<ftMissing, ftPacks>>

\* C10: whichever requests to the registry and to the generative service fail
\* (network error, timeout, status other than 2xx, body that cannot be parsed),
\* main goes on: no failed request ends the run with an exception, every step
\* leads to a later phase or to the next add-on, and when main reaches the
\* call of save_data every failed request was followed by the next tier for
\* the same add-on and every scanned add-on went through the tiers.
C10_FailedRequestsFallThrough ==
    /\ [](ftPc = "raised" => OtherCause)
    /\ [](ftPc = "save" =>
            /\ \A i \in 1..Len(ftLog) : ftLog[i].out = "fail" => FallsThrough(i)
            /\ AllProcessed)
    /\ [][Advances]_vars

\* C10, its case: two add-ons; the batch request, the alias fetch, both
\* searches and both generate requests fail, and main reaches save_data
C10_Witness ==
    /\ ftPc = "save"
    /\ Len(AllMods) = 2
    /\ Key(AllMods[1].name) # Key(AllMods[2].name)
    /\ has_ollama
    /\ [i \in 1..Len(ftLog) |-> ftLog[i].call]
          = <<"batch", "search", "slug", "search", "probe", "generate", "generate">>
    /\ \A i \in 1..Len(ftLog) : ftLog[i].out = "fail" <=> ftLog[i].call # "probe"
    /\ \A k \in 1..2 : ftData.mods[Key(AllMods[k].name)].source = "unknown"


(***************************************************************************)
(* collect_datapacks, which generate_html runs after the two add-on        *)
(* collectors, and ai_get_datapack_info (SpecPacks)                        *)
(***************************************************************************)
GUIDE_COVERED_DATAPACKS ==
    {"graves", "back", "tpa", "afk display",
     "villager workstation highlights", "xp bottling",
     "redstone rotation wrench", "terracotta rotation wrench",
     "orb_of_origin_recipe", "vanillatweaks"}

ai_get_datapack_info(file, ok, pack_name, env) ==
    LET key   == Strip(Lower(pack_name))
        cache == load_ai_cache(file)
        packs == Get(cache, "datapacks", <<>>)
        avail == ollama_available(ok, env.probe)
    IN  IF key \in DOMAIN packs
        THEN AiOutcome(key, TRUE, FALSE, packs[key], file, [ok |-> ok, probes |-> 0, tags |-> NotAsked], 0)
        ELSE IF avail.ok # "True" THEN AiOutcome(key, FALSE, FALSE, PyNone, file, avail, 0)
        ELSE IF env.raw.kind \in {"fail", "text"}
        THEN AiOutcome(key, FALSE, FALSE, PyNone, file, avail, 1)
        ELSE IF env.raw.kind = "null"
        THEN AiOutcome(key, FALSE, TRUE, PyNone, file, avail, 1)
        ELSE IF {"desc", "guide_name"} \ DOMAIN env.raw.data # {}
        THEN AiOutcome(key, FALSE, FALSE, PyNone, file, avail, 1)
        ELSE AiOutcome(key, FALSE, FALSE, env.raw.data,
                       save_ai_cache(file, Put(cache, "datapacks", Put(packs, key, env.raw.data)),
                                     env.written),
                       avail, 1)

\* the cleaned name of each of them (lines 450-451), computed once
GenPackNameOf ==
    Table(GenPackEntries, [i \in 1..Len(GenPackEntries) |-> PackName(GenPackEntries[i])], 1)

\* lines 456-463
IsCovered(entry) ==
    LET key == Strip(Lower(GenPackNameOf[entry]))
    IN  \/ \E covered \in GUIDE_COVERED_DATAPACKS : Contains(key, covered) \/ Contains(covered, key)
        \/ StartsWith(Lower(entry), "vanillatweaks")

\* IsCovered of each entry, computed once
IsCoveredOf ==
    Table(GenPackEntries, [i \in 1..Len(GenPackEntries) |-> IsCovered(GenPackEntries[i])], 1)

\* dp before the lookup
PackEntry(entry) == [name |-> GenPackNameOf[entry], folder |-> entry, desc |-> ""]

\* lines 470-474
PackWithInfo(dp, info) ==
    [name |-> dp.name, folder |-> dp.folder, desc |-> Get(info, "desc", ""),
     guide_name |-> Get(info, "guide_name", Null),
     guide_body |-> Get(info, "guide_body", Null),
     guide_example |-> Get(info, "guide_example", Null)]

\* lines 438-442: the directory is looked at, then _ollama_available is asked
DP_Start ==
    /\ mdPc = "done"
    /\ IF ~packDir.isdir
       THEN mdPc' = "packs_done" /\ UNCHANGED <<ollama_ok, aiProbes, aiTags>>
       ELSE \E probe \in ProbeOutcomes :
               LET avail == ollama_available(ollama_ok, probe)
               IN  /\ ollama_ok' = avail.ok
                   /\ aiProbes' = aiProbes + avail.probes
                   /\ aiTags' = IF avail.probes = 0 THEN aiTags ELSE avail.tags
                   /\ mdPc' = "packs"
    /\ mdIdx' = 1
    /\ UNCHANGED <<packDir, clientFiles, indexed, serverFiles, datapacks, aiCacheFile, aiCalls,
                   aiGenerates, aiLast, clientMods, serverMods>>
    /\ UNCHANGED exceptMd

\* lines 444-476: one iteration of the loop over the entries
DP_Pack ==
    /\ mdPc = "packs"
    /\ mdIdx <= Len(packDir.entries)
    /\ LET e  == packDir.entries[mdIdx]
           dp == PackEntry(e.entry)
       IN  IF ~e.isdir
           THEN /\ mdIdx' = mdIdx + 1
                /\ UNCHANGED <<datapacks, aiCacheFile, ollama_ok, aiProbes, aiTags, aiGenerates, mdPc>>
           ELSE IF IsCoveredOf[e.entry]
           THEN /\ datapacks' = Append(datapacks, Put(dp, "covered", TRUE))
                /\ mdIdx' = mdIdx + 1
                /\ UNCHANGED <<aiCacheFile, ollama_ok, aiProbes, aiTags, aiGenerates, mdPc>>
           ELSE IF ollama_ok # "True"
           THEN /\ datapacks' = Append(datapacks, dp)
                /\ mdIdx' = mdIdx + 1
                /\ UNCHANGED <<aiCacheFile, ollama_ok, aiProbes, aiTags, aiGenerates, mdPc>>
           ELSE \E env \in Environments :
                   LET call == ai_get_datapack_info(aiCacheFile, ollama_ok, e.entry, env)
                   IN  /\ aiCacheFile' = call.file
                       /\ ollama_ok' = call.ok
                       /\ aiProbes' = aiProbes + call.probes
                       /\ aiTags' = IF call.probes = 0 THEN aiTags ELSE call.tags
                       /\ aiGenerates' = aiGenerates + call.generates
                       /\ IF call.raised
                          THEN mdPc' = "raised" /\ UNCHANGED <<mdIdx, datapacks>>
                          ELSE /\ mdIdx' = mdIdx + 1
                               /\ UNCHANGED mdPc
                               /\ datapacks' = Append(datapacks,
                                                      IF Truthy(call.result)
                                                      THEN PackWithInfo(dp, call.result)
                                                      ELSE dp)
    /\ UNCHANGED <<packDir, clientFiles, indexed, serverFiles, aiCalls, aiLast, clientMods,
                   serverMods>>
    /\ UNCHANGED exceptMd

\* line 477
DP_Return ==
    /\ mdPc = "packs"
    /\ mdIdx > Len(packDir.entries)
    /\ mdPc' = "packs_done"
    /\ UNCHANGED <<packDir, clientFiles, indexed, serverFiles, datapacks, aiCacheFile, ollama_ok,
                   aiCalls, aiProbes, aiTags, aiGenerates, aiLast, mdIdx, clientMods, serverMods>>
    /\ UNCHANGED exceptMd

\* collect_datapacks is called with the cache file and the _ollama_ok that
\* the add-on collectors left
DP_Init ==
    /\ clientFiles = <<>>
    /\ indexed = <<>>
    /\ serverFiles = <<>>
    /\ aiCacheFile \in PackCacheFiles
    /\ \E probe \in ProbeOutcomes \cup {NotAsked} :
          /\ aiTags = probe
          /\ ollama_ok = IF probe = NotAsked THEN "None" ELSE ollama_available("None", probe).ok
    /\ aiCalls = 0
    /\ aiProbes = 0
    /\ aiGenerates = 0
    /\ aiLast = [key |-> "", hit |-> FALSE, result |-> PyNone, fields |-> {}]
    /\ mdIdx = 1
    /\ clientMods = <<>>
    /\ serverMods = <<>>
    /\ mdPc = "done"
    /\ packDir \in GenPackDirs
    /\ datapacks = <<>>

PacksInit == DP_Init /\ SP_Idle /\ GR_Idle /\ PL_Idle /\ FT_Idle /\ CF_Idle /\ LK_Idle /\ TH_Idle

PacksNext == DP_Start \/ DP_Pack \/ DP_Return

SpecPacks == PacksInit /\ [][PacksNext]_vars

(***************************************************************************)
(* Placeholder records of the data fetcher                                 *)
(***************************************************************************)
\* the keys of the scanned add-ons
ScannedKeys == {Key(AllMods[k].name) : k \in 1..Len(AllMods)}

\* no record for the key was loaded, and no tier of this run gave one
Unresolved(key) ==
    /\ key \notin DOMAIN LoadedMods
    /\ key \in DOMAIN ftData.mods => ftData.mods[key].source \notin {"modrinth", "ollama"}

\* data["mods"][key] is the placeholder of a scanned add-on with that key
HasPlaceholder(key) ==
    /\ key \in DOMAIN ftData.mods
    /\ \E k \in 1..Len(AllMods) :
          /\ Key(AllMods[k].name) = key
          /\ ftData.mods[key] = Placeholder(AllMods[k].name, AllMods[k].side)

\* C11: when main reaches save_data, every scanned add-on that no tier gave a
\* record for has the placeholder record (empty description, side of its
\* scan, requirement "unknown", source "unknown"), whether the generative
\* service was available or not.
C11_UnresolvedGetPlaceholder ==
    ftPc = "save" => \A key \in ScannedKeys : Unresolved(key) => HasPlaceholder(key)

\* C11, the part that holds: the same when the probe found the generative
\* service available
C11_PlaceholderWhenAvailable ==
    (ftPc = "save" /\ has_ollama) =>
        \A key \in ScannedKeys : Unresolved(key) => HasPlaceholder(key)

\* C11, the case of the part that holds: the service is available, a generate
\* request failed and the add-on has the placeholder
C11_AvailableCase ==
    /\ ftPc = "save"
    /\ has_ollama
    /\ \E i \in 1..Len(ftLog) :
          /\ ftLog[i].call = "generate"
          /\ ftLog[i].out = "fail"
          /\ Unresolved(ftLog[i].key)
          /\ HasPlaceholder(ftLog[i].key)

(***************************************************************************)
(* A malformed output file of the data fetcher                             *)
(***************************************************************************)
\* data of main when load_existing found nothing to load
EmptyData == [mods |-> <<>>, datapacks |-> <<>>, config_map |-> <<>>]

\* main has loaded the file as if there were none: it did not raise at
\* existing.get, and after the load data is empty
LoadedAsEmpty ==
    /\ ~(ftPc = "raised" /\ ftLog = <<>> /\ ftError = "AttributeError")
    /\ ftPc = "client" => ftData = EmptyData

\* C12: an output file that is not the expected data, be it not JSON at all or
\* JSON that is not an object, is discarded when it is loaded: main does not
\* raise and goes on as it does without a file.
C12_MalformedFileDiscarded ==
    (ftPc # "saved" /\ ftOutput.kind \in {"garbage", "array"}) => LoadedAsEmpty

\* C12, the part that holds: a file that is not JSON is discarded
C12_UnparsableFileDiscarded ==
    (ftPc # "saved" /\ ftOutput.kind = "garbage") => LoadedAsEmpty

\* C12, the case of the part that holds: main has loaded a file that is not JSON
C12_UnparsableCase == ftPc = "client" /\ ftOutput.kind = "garbage"

(***************************************************************************)
(* Malformed sources of collect_players (SpecPlayers)                      *)
(***************************************************************************)
\* C13: whatever the sources of the player data hold, malformed ones
\* included, collect_players does not raise.
C13_NeverRaises == plPc # "raised"

\* C13, the part that holds: when usercache.json can be read, a stats file
\* that cannot be read leaves the counters of its player at 0 and the loop
\* goes on: every uuid is joined, and the other players have the counters of
\* their files.
C13_UnreadableStatsEmptyOnePlayer ==
    plPc \in {"dedup", "done"} =>
        /\ {plJoined[i].uuid : i \in 1..Len(plJoined)}
              = DOMAIN usercacheFile.data \cup DOMAIN statsFiles
        /\ \A i \in 1..Len(plJoined) :
              LET u == plJoined[i].uuid
              IN  IF u \in DOMAIN statsFiles /\ statsFiles[u] # StatsUnreadable
                  THEN /\ plJoined[i].play_time = statsFiles[u].play_time
                       /\ plJoined[i].deaths = statsFiles[u].deaths
                  ELSE /\ plJoined[i].play_time = 0
                       /\ plJoined[i].deaths = 0

\* C13, the case of the part that holds: the stats file of the first of two
\* players cannot be read, and the second player is returned
C13_UnreadableStatsCase ==
    /\ plPc = "done"
    /\ Len(plJoined) = 2
    /\ plJoined[1].uuid \in DOMAIN statsFiles
    /\ statsFiles[plJoined[1].uuid] = StatsUnreadable
    /\ plJoined[2].play_time > 0
    /\ players = <<plJoined[2]>>

(***************************************************************************)
(* The persisted sections over the runs of the collectors and of the data  *)
(* fetcher (SpecCaches)                                                    *)
(***************************************************************************)
CachesInit == ModsInit \/ PacksInit \/ FetchInit

CachesNext == ModsNext \/ PacksNext \/ FetchNext

SpecCaches == CachesInit /\ [][CachesNext]_vars

\* a section of the cache file of the generator: the file holds one when it
\* is a JSON object
GenSection(file, section) ==
    IF file.kind = "json" THEN Get(file.data, section, <<>>) ELSE <<>>

\* a section of the output file of the data fetcher, as load_existing and
\* main read it
FetchSection(file, section) ==
    IF file.kind = "object" THEN Get(file.data, section, <<>>) ELSE <<>>

\* every key of old is a key of new, and a key whose value is new or has
\* changed is one of keys
OnlyWritten(old, new, keys) ==
    /\ DOMAIN old \subseteq DOMAIN new
    /\ \A k \in DOMAIN new : (k \notin DOMAIN old \/ new[k] # old[k]) => k \in keys

C14_PackCase ==
    /\ "otherpack" \in DOMAIN GenSection(aiCacheFile, "datapacks")
    /\ DOMAIN GenSection(aiCacheFile, "datapacks") # {"otherpack"}

C14_FetchCase ==
    /\ ftPc = "saved"
    /\ "qwertymod" \in DOMAIN FetchSection(ftOutput, "mods")
    /\ "terralith" \in DOMAIN FetchSection(ftOutput, "datapacks")
    /\ Cardinality(DOMAIN FetchSection(ftOutput, "mods")) > 2

(***************************************************************************)
(* Loaded records over a run of the data fetcher (SpecFetch)               *)
(***************************************************************************)
\* main is between load_existing and save_data: the file is the loaded one
FetchRunning == ftPc \in {"client", "server", "manual", "batch", "missing", "ollama",
                          "datapacks", "save"}

\* the record is the one main writes for an add-on no tier resolved
IsPlaceholder(rec) ==
    /\ Get(rec, "desc", Null) = ""
    /\ Get(rec, "req", Null) = "unknown"
    /\ Get(rec, "source", Null) = "unknown"

\* the keys of the client add-ons that have a registry identifier
BatchKeys == {Key(client_mods[i].name) : i \in {j \in 1..Len(client_mods) : client_mods[j].mid # ""}}

\* C15, as claimed: between load and save, every record of the loaded mods
\* mapping that is not the placeholder is in data["mods"] as it was loaded.
C15_LoadedRecordsIdentical ==
    FetchRunning =>
        \A key \in DOMAIN FetchSection(ftOutput, "mods") :
            ~IsPlaceholder(FetchSection(ftOutput, "mods")[key])
                => ftData.mods[key] = FetchSection(ftOutput, "mods")[key]

\* C15, the part that holds: every loaded record, placeholder or not, whose
\* key is not that of a client add-on with a registry identifier is in
\* data["mods"] as it was loaded.
C15_LoadedRecordsIdenticalOutsideBatch ==
    FetchRunning =>
        \A key \in DOMAIN FetchSection(ftOutput, "mods") \ BatchKeys :
            ftData.mods[key] = FetchSection(ftOutput, "mods")[key]

\* C15, the case of the part that holds: main reached save_data with a loaded
\* record of a scanned add-on, after requests were sent
C15_OutsideBatchCase ==
    /\ ftPc = "save"
    /\ "worldedit" \in DOMAIN FetchSection(ftOutput, "mods") \cap ScannedKeys
    /\ Len(ftLog) > 1

(***************************************************************************)
(* The playtime filter of collect_players (SpecPlayers)                    *)
(***************************************************************************)
\* the stats file of the uuid was read and holds a positive play_time
PlayedOnServer(uuid) ==
    /\ uuid \in DOMAIN statsFiles
    /\ statsFiles[uuid] # StatsUnreadable
    /\ statsFiles[uuid].play_time > 0

\* players holds a record of the uuid
Listed(uuid) == \E i \in 1..Len(players) : players[i].uuid = uuid

\* players holds the record of another uuid with the same lowercased name
\* and at least the playtime of this one
LostToNamesake(uuid) ==
    \E i \in 1..Len(players) :
        /\ players[i].uuid # uuid
        /\ Lower(players[i].name) = Lower(PlayerOf(uuid).name)
        /\ players[i].play_time >= StatsOf(uuid).play_time

\* C16: when collect_players returns, every record has a play_time above
\* zero and belongs to a uuid whose stats file was read with a positive
\* play_time (so a uuid of usercache.json or ops.json alone, or one whose stats
\* file is missing or cannot be read, is not listed), and every uuid with a
\* positive play_time is listed unless a record of the same name with at least
\* its playtime is.
C16_PlaytimeFilter ==
    plPc = "done" =>
        /\ \A i \in 1..Len(players) :
              players[i].play_time > 0 /\ PlayedOnServer(players[i].uuid)
        /\ \A uuid \in Uuids : uuid \notin DOMAIN statsFiles => ~Listed(uuid)
        /\ \A uuid \in DOMAIN statsFiles :
              PlayedOnServer(uuid) => Listed(uuid) \/ LostToNamesake(uuid)

\* C16, its case: an operator of usercache.json without a stats file, next
\* to a uuid that played, and the one record returned
C16_Witness ==
    /\ plPc = "done"
    /\ Len(players) = 1
    /\ \E uuid \in (DOMAIN uuid_to_name \cap ops) \ DOMAIN statsFiles : ~Listed(uuid)

\* C16, further cases: a stats file with play_time 0, one that cannot be
\* read, a record that lost to one of the same name
C16_ZeroCase ==
    /\ plPc = "done"
    /\ Len(players) = 1
    /\ \E uuid \in DOMAIN statsFiles : statsFiles[uuid] # StatsUnreadable /\ ~PlayedOnServer(uuid)

C16_UnreadableCase ==
    /\ plPc = "done"
    /\ Len(players) = 1
    /\ \E uuid \in DOMAIN statsFiles : statsFiles[uuid] = StatsUnreadable

C16_NamesakeCase ==
    /\ plPc = "done"
    /\ \E uuid \in DOMAIN statsFiles : PlayedOnServer(uuid) /\ ~Listed(uuid)

(***************************************************************************)
(* collect_configs: CONFIG_TO_MOD and the walk over a config directory.    *)
(* Of a listed file the relative path is kept; what read_config_file makes *)
(* of its content is not part of this model.                               *)
(***************************************************************************)
\* the pairs of key and owner, in the order of the dict literal
CONFIG_TO_MOD ==
    <<<<"bobby.conf", "Bobby">>,
      <<"carryon-client.json", "Carry On">>,
      <<"carryon-common.json", "Carry On">>,
      <<"chat_heads.json5", "Chat Heads">>,
      <<"chunkloaders-common.toml", "Chunk Loaders">>,
      <<"enchdesc.json", "Enchantment Descriptions">>,
      <<"fallingtree.json", "FallingTree">>,
      <<"iris-excluded.json", "Iris Shaders">>,
      <<"iris.properties", "Iris Shaders">>,
      <<"lootr.json", "Lootr">>,
      <<"modmenu.json", "Mod Menu">>,
      <<"origins_server.json", "Origins: Legacy">>,
      <<"pal.properties", "Origins: Legacy">>,
      <<"power_config.json5", "Origins: Legacy">>,
      <<"promenade.json", "Promenade">>,
      <<"sodium-fingerprint.json", "Sodium">>,
      <<"sodium-mixins.properties", "Sodium">>,
      <<"sodium-options.json", "Sodium">>,
      <<"waystones-common.toml", "Waystones">>,
      <<"xaerohud.txt", "Xaero's Minimap">>,
      <<"xaeropatreon.txt", "Xaero's Minimap">>,
      <<"yacl.json5", "YetAnotherConfigLib (YACL)">>,
      <<"zoomify.json", "Zoomify">>,
      <<"cardinal-components-api.properties", "Origins: Legacy">>,
      <<"biolith/general.json", "Promenade">>,
      <<"enhancedgroups/enhancedgroups.properties", "Enhanced Groups">>,
      <<"fabric/indigo-renderer.properties", "Fabric API">>,
      <<"jei/recipe-category-sort-order.ini", "Just Enough Items (JEI)">>,
      <<"jei/ingredient-list-type-sort-order.ini", "Just Enough Items (JEI)">>,
      <<"jei/blacklist.json", "Just Enough Items (JEI)">>,
      <<"jei/jei-colors.ini", "Just Enough Items (JEI)">>,
      <<"jei/ingredient-list-mod-sort-order.ini", "Just Enough Items (JEI)">>,
      <<"jei/jei-mod-id-format.ini", "Just Enough Items (JEI)">>,
      <<"jei/jei-client.ini", "Just Enough Items (JEI)">>,
      <<"jei/jei-debug.ini", "Just Enough Items (JEI)">>,
      <<"waila/waila.json5", "WTHIT">>,
      <<"waila/debug.json5", "WTHIT">>,
      <<"waila/blacklist.json5", "WTHIT">>,
      <<"waila/waila_plugins.json5", "WTHIT">>,
      <<"waila/plugin_toggle.json5", "WTHIT">>,
      <<"voicechat/username-cache.json", "Simple Voice Chat">>,
      <<"voicechat/voicechat-client.properties", "Simple Voice Chat">>,
      <<"voicechat/player-volumes.properties", "Simple Voice Chat">>,
      <<"voicechat/voicechat-server.properties", "Simple Voice Chat">>,
      <<"voicechat/category-volumes.properties", "Simple Voice Chat">>,
      <<"voicechat/translations.properties", "Simple Voice Chat">>,
      <<"xaero/minimap.txt", "Xaero's Minimap">>,
      <<"abridged.json", "Abridged">>,
      <<"antixray.toml", "AntiXray">>,
      <<"beacon-range-extender.json", "Beacon Range Extender">>,
      <<"c2me.toml", "C2ME">>,
      <<"collective.json5", "Collective">>,
      <<"collective/entity_names.json", "Collective">>,
      <<"ctov.json", "ChoiceTheorem's Overhauled Village">>,
      <<"DistantHorizons.toml", "Distant Horizons">>,
      <<"ferritecore.mixin.properties", "FerriteCore">>,
      <<"forgeconfigapiport.toml", "Forge Config API Port">>,
      <<"harvest_with_ease-common.toml", "Harvest With Ease">>,
      <<"lithium.properties", "Lithium">>,
      <<"lithostitched.json", "Lithostitched">>,
      <<"NoExpensive.json", "No Expensive">>,
      <<"packetfixer.properties", "PacketFixer">>,
      <<"sparsestructures.json5", "Sparse Structures">>,
      <<"tectonic.json", "Tectonic">>,
      <<"villagernames.json5", "Villager Names">>,
      <<"villagernames/customnames.txt", "Villager Names">>,
      <<"chunky/config.json", "Chunky">>,
      <<"skinrestorer/mojang_profile_cache.json", "Skin Restorer">>,
      <<"skinrestorer/config.json", "Skin Restorer">>,
      <<"spark/config.json", "Spark">>,
      <<"EasyAuth/technical.conf", "EasyAuth">>,
      <<"EasyAuth/main.conf", "EasyAuth">>,
      <<"EasyAuth/storage.conf", "EasyAuth">>,
      <<"EasyAuth/extended.conf", "EasyAuth">>,
      <<"EasyAuth/translation.conf", "EasyAuth">>,
      <<"towns_and_towers/structure_enable_or_disable_new.json5", "Towns and Towers">>,
      <<"towns_and_towers/structure_rarity_new.json5", "Towns and Towers">>,
      <<"vanilla_structures/placement_structure_config.json5", "Sparse Structures">>,
      <<"vanilla_structures/toggle_structure_config.json5", "Sparse Structures">>,
      <<"cristellib/built_in_packs.json5", "CristelLib">>,
      <<"cristellib/auto_config_settings.json5", "CristelLib">>,
      <<"polymer/common.json", "Polymer">>,
      <<"polymer/server.json", "Polymer">>,
      <<"polymer/sound-patch.json", "Polymer">>,
      <<"polymer/auto-host.json", "Polymer">>,
      <<"worldedit/worldedit.properties", "WorldEdit">>>>

\* parts[0] of rel.split(os.sep)
TopOf(rel) ==
    LET i == Find(rel, "/") IN IF i = 0 THEN rel ELSE SubSeq(rel, 1, i - 1)

FoundOwner(name) == [found |-> TRUE, name |-> name]

NoOwner == [found |-> FALSE, name |-> ""]

\* line 610: CONFIG_TO_MOD.get(rel, None)
ExactOwner(rel) ==
    LET hits == {i \in 1..Len(CONFIG_TO_MOD) : CONFIG_TO_MOD[i][1] = rel}
    IN  IF hits = {} THEN NoOwner ELSE FoundOwner(CONFIG_TO_MOD[CHOOSE i \in hits : TRUE][2])

\* lines 617-620: the loop over the keys from the i-th on, left at the first
\* key that starts with top + "/"
RECURSIVE PrefixOwner(_, _)
PrefixOwner(top, i) ==
    IF i > Len(CONFIG_TO_MOD) THEN NoOwner
    ELSE IF StartsWith(CONFIG_TO_MOD[i][1], top \o "/") THEN FoundOwner(CONFIG_TO_MOD[i][2])
    ELSE PrefixOwner(top, i + 1)

\* a mutant of HardcodedOwner: no top-level name has an owner of its own
HardcodedOwnerNone(top) == NoOwner

\* lines 622-629
HardcodedOwner(top) ==
    IF Lower(top) = "jei" THEN FoundOwner("Just Enough Items (JEI)")
    ELSE IF Lower(top) = "waila" THEN FoundOwner("WTHIT")
    ELSE IF Lower(top) = "voicechat" THEN FoundOwner("Simple Voice Chat")
    ELSE IF Lower(top) = "xaero" THEN FoundOwner("Xaero's Minimap")
    ELSE NoOwner

\* lines 610-632: mod_name of the file rel
ConfigOwner(rel) ==
    LET exact  == ExactOwner(rel)
        prefix == PrefixOwner(TopOf(rel), 1)
        hard   == HardcodedOwner(TopOf(rel))
    IN  IF exact.found THEN exact.name
        ELSE IF prefix.found THEN prefix.name
        ELSE IF hard.found THEN hard.name
        ELSE "Unknown (" \o rel \o ")"

\* lines 602-604
CF_Start ==
    /\ cfPc = "start"
    /\ cfPc' = IF cfDir.isdir THEN "walk" ELSE "done"
    /\ UNCHANGED <<cfDir, cfIdx, configs>>
    /\ UNCHANGED exceptCf

\* lines 607-635: one iteration of the loop over the files of the walk
CF_File ==
    /\ cfPc = "walk"
    /\ cfIdx <= Len(cfDir.files)
    /\ LET rel      == cfDir.files[cfIdx]
           mod_name == ConfigOwner(rel)
       IN  configs' = Put(configs, mod_name, Append(Get(configs, mod_name, <<>>), rel))
    /\ cfIdx' = cfIdx + 1
    /\ UNCHANGED <<cfDir, cfPc>>
    /\ UNCHANGED exceptCf

\* line 636
CF_Return ==
    /\ cfPc = "walk"
    /\ cfIdx > Len(cfDir.files)
    /\ cfPc' = "done"
    /\ UNCHANGED <<cfDir, cfIdx, configs>>
    /\ UNCHANGED exceptCf

(***************************************************************************)
(* The config directories of the runs of collect_configs                   *)
(***************************************************************************)
MaxConfigFiles == 3

\* relative paths of files below config_dir
ConfigPaths ==
    {"sodium-options.json", "readme.txt", "waila",
     "collective/entity_names.json", "collective/extra.json", "jei/extra.ini",
     "JEI/extra.ini", "easyauth/extra.conf", "sodium-options.json/backup.json"}

\* os.walk is top-down: the files of config_dir come first, those of one
\* directory follow each other, and no name is both a file and a directory
IsWalk(files) ==
    /\ \A i, j \in 1..Len(files) : i # j => files[i] # files[j]
    /\ \A i, j \in 1..Len(files) :
          (i < j /\ Find(files[j], "/") = 0) => Find(files[i], "/") = 0
    /\ \A i, j \in 1..Len(files) :
          (i < j /\ TopOf(files[i]) = TopOf(files[j]))
             => \A k \in i..j : TopOf(files[k]) = TopOf(files[i])
    /\ \A i, j \in 1..Len(files) :
          (Find(files[i], "/") = 0 /\ Find(files[j], "/") # 0) => files[i] # TopOf(files[j])

ConfigWalks ==
    {files \in UNION {[1..n -> ConfigPaths] : n \in 0..MaxConfigFiles} : IsWalk(files)}

CF_Init ==
    /\ cfDir \in {[isdir |-> FALSE, files |-> <<>>]}
                   \cup {[isdir |-> TRUE, files |-> files] : files \in ConfigWalks}
    /\ cfIdx = 1
    /\ configs = <<>>
    /\ cfPc = "start"

ConfigsInit == CF_Init /\ SP_Idle /\ GR_Idle /\ MD_Idle /\ PL_Idle /\ FT_Idle /\ LK_Idle /\ TH_Idle

ConfigsNext == CF_Start \/ CF_File \/ CF_Return

SpecConfigs == ConfigsInit /\ [][ConfigsNext]_vars

(***************************************************************************)
(* Properties of collect_configs (SpecConfigs)                             *)
(***************************************************************************)
\* the places of configs that hold the path
PlacesOf(rel) ==
    {<<owner, j>> \in (DOMAIN configs) \X (1..(MaxConfigFiles + 1)) :
        j <= Len(configs[owner]) /\ configs[owner][j] = rel}

\* the indices of the keys below the top-level segment of rel
KeysBelowTop(rel) ==
    {i \in 1..Len(CONFIG_TO_MOD) : StartsWith(CONFIG_TO_MOD[i][1], TopOf(rel) \o "/")}

\* the owner the rules give, the first applicable one deciding
RuleOwner(rel) ==
    IF \E i \in 1..Len(CONFIG_TO_MOD) : CONFIG_TO_MOD[i][1] = rel
    THEN CONFIG_TO_MOD[CHOOSE i \in 1..Len(CONFIG_TO_MOD) : CONFIG_TO_MOD[i][1] = rel][2]
    ELSE IF KeysBelowTop(rel) # {}
    THEN CONFIG_TO_MOD[CHOOSE i \in KeysBelowTop(rel) : \A j \in KeysBelowTop(rel) : i <= j][2]
    ELSE IF Lower(TopOf(rel)) = "jei" THEN "Just Enough Items (JEI)"
    ELSE IF Lower(TopOf(rel)) = "waila" THEN "WTHIT"
    ELSE IF Lower(TopOf(rel)) = "voicechat" THEN "Simple Voice Chat"
    ELSE IF Lower(TopOf(rel)) = "xaero" THEN "Xaero's Minimap"
    ELSE "Unknown (" \o rel \o ")"

\* C17: when collect_configs returns, every file of the walk is listed once,
\* under one owner, nothing else is listed, and the owner is that of the key
\* equal to the relative path, else that of the first key of CONFIG_TO_MOD
\* below the path's top-level segment (the key starts with the segment and
\* "/"), else that of the hardcoded top-level name, else "Unknown (<path>)".
C17_EveryFileUnderItsOwner ==
    cfPc = "done" =>
        /\ \A i \in 1..Len(cfDir.files) :
              /\ Cardinality(PlacesOf(cfDir.files[i])) = 1
              /\ \A place \in PlacesOf(cfDir.files[i]) : place[1] = RuleOwner(cfDir.files[i])
        /\ \A owner \in DOMAIN configs :
              \A j \in 1..Len(configs[owner]) :
                  \E i \in 1..Len(cfDir.files) : cfDir.files[i] = configs[owner][j]

\* C17, its case: a walk whose files fall under the second, the third and
\* the fourth rule
C17_Witness ==
    /\ cfPc = "done"
    /\ cfDir.files = <<"collective/extra.json", "JEI/extra.ini", "easyauth/extra.conf">>
    /\ DOMAIN configs = {"Collective", "Just Enough Items (JEI)", "Unknown (easyauth/extra.conf)"}

\* C17, further cases: two files under one owner, by the first and by the
\* second rule; a directory named like a key
C17_SharedOwnerCase ==
    /\ cfPc = "done"
    /\ "Collective" \in DOMAIN configs
    /\ configs["Collective"] = <<"collective/entity_names.json", "collective/extra.json">>

C17_DirectoryNamedLikeKeyCase ==
    /\ cfPc = "done"
    /\ "Unknown (sodium-options.json/backup.json)" \in DOMAIN configs

(***************************************************************************)
(* The batch request of the data fetcher for large client indexes          *)
(* (SpecBatch): main at line 427, after an index of n files was scanned    *)
(***************************************************************************)
\* the batch size the docstring of modrinth_batch_projects names
BatchLimit == 100

DecimalDigits == <<"0", "1", "2", "3", "4", "5", "6", "7", "8", "9">>

\* i in three digits
Pad3(i) ==
    DecimalDigits[(i \div 100) + 1] \o DecimalDigits[((i \div 10) % 10) + 1]
        \o DecimalDigits[(i % 10) + 1]

\* the i-th file of the index, and what parse_pw_toml reads from it
IndexedFile(i) == "mod" \o Pad3(i) \o ".pw.toml"

IndexedMeta(i) ==
    [name |-> "Mod " \o Pad3(i), filename |-> "mod" \o Pad3(i) \o ".jar"]
        @@ ("update.modrinth.mod-id" :> ("ID" \o Pad3(i)))

\* the index holds n files with a registry identifier, and no jar is on the
\* server; load_existing found no file
BatchInitOf(n) ==
    /\ ftOutput = Json("missing", <<>>)
    /\ ftIndexDir = [i \in 1..n |-> IndexedFile(i)]
    /\ ftServerDir = <<>>
    /\ ftPackDir = <<>>
    /\ ftConfigDirs = [client |-> {}, server |-> {}]
    /\ ftHitLists = HitLists
    /\ ftData = [mods |-> ManualOverrides(<<>>), datapacks |-> <<>>, config_map |-> <<>>]
    /\ client_mods = [i \in 1..n |-> ClientMod(IndexedFile(i), IndexedMeta(i))]
    /\ server_mods = <<>>
    /\ ftMissing = <<>>
    /\ ftPacks = <<>>
    /\ ftIdx = 1
    /\ has_ollama = FALSE
    /\ ftLog = <<>>
    /\ ftError = ""
    /\ ftPc = "batch"

BatchInit ==
    /\ \E n \in 0..(BatchLimit + 1) : BatchInitOf(n)
    /\ SP_Idle /\ GR_Idle /\ MD_Idle /\ PL_Idle /\ CF_Idle /\ LK_Idle /\ TH_Idle

BatchNext == FT_Batch

SpecBatch == BatchInit /\ [][BatchNext]_vars

\* C18, as claimed: every request to /projects in the log carries at most
\* 100 identifiers.
C18_BatchAtMostHundred ==
    \A i \in 1..Len(ftLog) :
        ftLog[i].call = "batch" => Len(ftLog[i].ids) <= BatchLimit

\* C18, what holds: one request to /projects is sent, and it carries the
\* identifiers of all client add-ons that have one
C18_OneBatchOfAll ==
    \A i \in 1..Len(ftLog) :
        ftLog[i].call = "batch"
           => /\ i = 1
              /\ Len(ftLog[i].ids) = Cardinality({k \in 1..Len(client_mods) : client_mods[k].mid # ""})

C18_LargeIndexCase ==
    /\ Len(ftLog) = 1
    /\ Len(client_mods) > BatchLimit

(***************************************************************************)
(* The order of the resolution tiers (SpecCaches)                          *)
(***************************************************************************)
\* the jar the running loop of a collector is at, if any
AtJar ==
    /\ mdPc \in {"client", "server"}
    /\ mdIdx <= Len(IF mdPc = "client" THEN clientFiles ELSE serverFiles)
    /\ EndsWith((IF mdPc = "client" THEN clientFiles ELSE serverFiles)[mdIdx], ".jar")

CurrentJar == (IF mdPc = "client" THEN clientFiles ELSE serverFiles)[mdIdx]

CurrentName == IF mdPc = "client" THEN ClientName(CurrentJar) ELSE ServerName(CurrentJar)

\* the record of the static tiers for the jar: the knowledge base by name,
\* then, in the server scan, by jar name
StaticRecord ==
    IF KnownByName[CurrentName] # PyNone THEN KnownByName[CurrentName]
    ELSE IF mdPc = "server" THEN KnownByJar[CurrentJar]
    ELSE PyNone

\* the entry the step of a collector appended
AppendedEntry ==
    IF mdPc = "client" THEN clientMods'[Len(clientMods')] ELSE serverMods'[Len(serverMods')]

\* the order of the tiers in the collectors of the generator
GeneratorTiersInOrder ==
    AtJar =>
        /\ StaticRecord # PyNone
              => /\ aiCalls' = aiCalls /\ aiProbes' = aiProbes /\ aiGenerates' = aiGenerates
                 /\ aiCacheFile' = aiCacheFile
                 /\ AppendedEntry.desc = StaticRecord.desc
        /\ aiCalls' # aiCalls => StaticRecord = PyNone
        /\ (aiProbes' # aiProbes \/ aiGenerates' # aiGenerates)
              => /\ aiCalls' # aiCalls
                 /\ aiLast'.key \notin DOMAIN CachedMods(aiCacheFile)
        /\ aiGenerates' # aiGenerates => ollama_ok' = "True"

\* the requests the step of the data fetcher sent
NewRequests == SubSeq(ftLog', Len(ftLog) + 1, Len(ftLog'))

\* the phase of main a request belongs to
PhaseOf(call) ==
    CASE call = "batch" -> 1
      [] call \in {"slug", "search", "project"} -> 2
      [] call = "probe" -> 3
      [] call = "generate" -> 4
      [] call = "generate_pack" -> 5

\* the order of the tiers in main of the data fetcher
FetchTiersInOrder ==
    /\ \A i \in 1..Len(NewRequests) :
          LET e == NewRequests[i]
          IN  /\ e.call = "batch" => ftPc = "batch" /\ ftLog = <<>>
              /\ e.call \in {"slug", "search", "project"}
                    => /\ ftPc = "missing"
                       /\ e.key = Key(ftMissing[ftIdx].name)
                       /\ e.key \notin DOMAIN ftData.mods
              /\ e.call = "slug" => i = 1 /\ (e.got => Len(NewRequests) = 1)
              /\ e.call = "search" => \A j \in (i + 1)..Len(NewRequests) : NewRequests[j].call = "project"
              /\ e.call = "project" => i = Len(NewRequests) /\ i > 1 /\ NewRequests[i - 1].call = "search"
              /\ e.call = "generate"
                    => /\ ftPc = "ollama"
                       /\ Len(NewRequests) = 1
                       /\ e.key = Key(ftMissing[ftIdx].name)
                       /\ \/ e.key \notin DOMAIN ftData.mods
                          \/ \E j \in 1..(ftIdx - 1) : Key(ftMissing[j].name) = e.key
    /\ \A i, j \in 1..Len(ftLog') :
          i < j => PhaseOf(ftLog'[i].call) <= PhaseOf(ftLog'[j].call)

\* C19: in the collectors of the generator a jar that the knowledge base
\* resolves by name (exact or fuzzy) or, in the server scan, by jar name gets
\* that record and ai_get_mod_info is not called; the service is asked only
\* for a key the cache file does not hold.  In the data fetcher the batch
\* request comes first; the alias fetch and the search are sent only for an
\* add-on whose key has no record, the search only when the alias fetch gave
\* no project; the generative service is asked only for add-ons that had no
\* record when the registry tiers were over.
C19_TiersInOrder == [][GeneratorTiersInOrder /\ FetchTiersInOrder]_vars

\* C19, its case: a run of the data fetcher in which one add-on was resolved
\* by the alias fetch, and the other went through the search to the
\* generative service
C19_Witness ==
    /\ ftPc = "saved"
    /\ \E i \in 1..Len(ftLog) : ftLog[i].call = "slug" /\ ftLog[i].got
    /\ \E i, j \in 1..Len(ftLog) :
          /\ ftLog[i].call = "search" /\ ftLog[j].call = "generate"
          /\ ftLog[i].key = ftLog[j].key

\* C19, further cases: a jar resolved by its jar name in the server scan,
\* and a jar for which the cache was read and the service asked
C19_JarNameCase ==
    /\ mdPc = "server"
    /\ Len(serverMods) > 0
    /\ aiCalls = 0
    /\ KnownByName[serverMods[Len(serverMods)].name] = PyNone
    /\ serverMods[Len(serverMods)].desc = KnownByJar[serverMods[Len(serverMods)].jar].desc

C19_ServiceCase == aiGenerates > 0 /\ Len(serverMods) > 0


(***************************************************************************)
(* lookup_mod_info called on its own, once per name, as the loops of       *)
(* collect_client_mods and collect_server_mods call it.                    *)
(***************************************************************************)

\* the blanks put around a name
MaxPad == 1

RECURSIVE Blanks(_)
Blanks(n) == IF n = 0 THEN "" ELSE " " \o Blanks(n - 1)

\* names as the jars and the index give them
LookupSeeds ==
    {"Structory Towers", "structory", "Structory Tower", "structor", "Balm", "BALM API",
     "Xaeros Minimap", "Xaero-s Minimap", "Carry-On", "Carry On Structory", "qwertymod",
     "", "???", "b", "Bobby!", "Better F3"}

LookupNames ==
    {Blanks(l) \o s \o Blanks(r) : <<s, l, r>> \in LookupSeeds \X (0..MaxPad) \X (0..MaxPad)}

\* lookup_mod_info of these names, computed once
LookupOf == [name \in LookupNames |-> lookup_mod_info(name)]

LK_Init ==
    /\ lkName \in LookupNames
    /\ lkResult = PyNone
    /\ lkPrev = <<>>
    /\ lkPc = "call"

\* info = lookup_mod_info(name)
LK_Call ==
    /\ lkPc = "call"
    /\ lkResult' = LookupOf[lkName]
    /\ lkPc' = "done"
    /\ UNCHANGED <<lkName, lkPrev>>
    /\ UNCHANGED exceptLk

\* the loop goes on to the next name
LK_Again ==
    /\ lkPc = "done"
    /\ lkPrev' = <<[name |-> lkName, result |-> lkResult]>>
    /\ lkName' \in LookupNames
    /\ lkResult' = PyNone
    /\ lkPc' = "call"
    /\ UNCHANGED exceptLk

LookupInit == LK_Init /\ SP_Idle /\ GR_Idle /\ MD_Idle /\ PL_Idle /\ FT_Idle /\ CF_Idle /\ TH_Idle

LookupNext == LK_Call \/ LK_Again

SpecLookup == LookupInit /\ [][LookupNext]_vars

\* the entries of MOD_INFO whose key is the candidate, those whose key contains
\* it or is contained in it, and those for which that holds without punctuation
ExactHits(key) == {i \in Entries : MOD_INFO[i].key = key}

PartialHits(key) ==
    {i \in Entries : Contains(key, MOD_INFO[i].key) \/ Contains(MOD_INFO[i].key, key)}

CleanHits(key) ==
    {i \in Entries : \/ Contains(Clean(key), Clean(MOD_INFO[i].key))
                     \/ Contains(Clean(MOD_INFO[i].key), Clean(key))}

\* r is the entry of the earliest of hits
IsEarliestOf(r, hits) ==
    \E i \in hits : (\A j \in hits : i <= j) /\ r = MOD_INFO[i].val

\* C20: a call of lookup_mod_info returns the entry of the exact lowercased,
\* trimmed key if the table has it; otherwise the entry of the first key, in
\* the order of the table, that contains the candidate or is contained in
\* it; otherwise the entry of the first key for which that holds once
\* punctuation is stripped from both; None only if no key matches.  A call
\* with the name of the call before returns what that call returned.
C20_LookupTiers ==
    lkPc = "done" =>
        LET key == Strip(Lower(lkName))
        IN  /\ IF ExactHits(key) # {} THEN IsEarliestOf(lkResult, ExactHits(key))
               ELSE IF PartialHits(key) # {} THEN IsEarliestOf(lkResult, PartialHits(key))
               ELSE IF CleanHits(key) # {} THEN IsEarliestOf(lkResult, CleanHits(key))
               ELSE lkResult = PyNone
            /\ (lkPrev # <<>> /\ lkPrev[1].name = lkName) => lkPrev[1].result = lkResult

\* C20: "Structory Towers" was looked up, a name whose exact key comes after
\* the key "structory" it contains, right after a call with the same name
C20_Witness ==
    /\ lkPc = "done"
    /\ Strip(Lower(lkName)) = "structory towers"
    /\ lkResult.desc = "Adds tower structures as an expansion to Structory"
    /\ lkPrev # <<>> /\ lkPrev[1].name = lkName

\* C20: a name two keys contain got the entry of the first of them
C20_PartialCase ==
    /\ lkPc = "done"
    /\ ExactHits(Strip(Lower(lkName))) = {}
    /\ Cardinality(PartialHits(Strip(Lower(lkName)))) > 1
    /\ lkResult # PyNone

\* C20: a name matched only once punctuation was stripped
C20_CleanCase ==
    /\ lkPc = "done"
    /\ PartialHits(Strip(Lower(lkName))) = {}
    /\ lkResult # PyNone

\* C20: a name no key matches
C20_NoneCase ==
    /\ lkPc = "done"
    /\ CleanHits(Strip(Lower(lkName))) = {}
    /\ lkResult = PyNone


(***************************************************************************)
(* The name search of the data fetcher (SpecSearch): main at line 447,     *)
(* after an index of add-ons without registry identifier was scanned, with *)
(* a registry whose search gives one ranked list                           *)
(***************************************************************************)
\* the index holds at most MaxSearched files
MaxSearched == 2

\* the files of the index as parse_pw_toml reads them
SearchIndex ==
    ("a.pw.toml" :> [name |-> "Qwerty Fabric", filename |-> "a.jar"])
    @@ ("b.pw.toml" :> [name |-> "Thing Other", filename |-> "b.jar"])
    @@ ("c.pw.toml" :> [name |-> "Qwerty Mod", filename |-> "c.jar"])
    @@ ("d.pw.toml" :> [name |-> "World Edit", filename |-> "d.jar"])
    @@ ("e.pw.toml" :> [name |-> "Qwerty\tFabric", filename |-> "e.jar"])

SearchHitLists ==
    HitLists
    \cup {<<[project_id |-> "QWFABR01", slug |-> "qwerty-mod-fabric",
             title |-> "Qwerty Mod (Fabric)"]>>}

SearchInitOf(files, hits) ==
    /\ ftOutput = Json("missing", <<>>)
    /\ ftIndexDir = files
    /\ ftServerDir = <<>>
    /\ ftPackDir = <<>>
    /\ ftConfigDirs = [client |-> {}, server |-> {}]
    /\ ftHitLists = {hits}
    /\ ftData = [mods |-> ManualOverrides(<<>>), datapacks |-> <<>>, config_map |-> <<>>]
    /\ client_mods = [i \in 1..Len(files) |-> ClientMod(files[i], SearchIndex[files[i]])]
    /\ server_mods = <<>>
    /\ ftMissing = client_mods
    /\ ftPacks = <<>>
    /\ ftIdx = 1
    /\ has_ollama = FALSE
    /\ ftLog = <<>>
    /\ ftError = ""
    /\ ftPc = "missing"

SearchInit ==
    /\ \E fs \in SUBSET DOMAIN SearchIndex, hits \in SearchHitLists :
          /\ Cardinality(fs) \in 1..MaxSearched
          /\ SearchInitOf(SortedNames(fs), hits)
    /\ SP_Idle /\ GR_Idle /\ MD_Idle /\ PL_Idle /\ CF_Idle /\ LK_Idle /\ TH_Idle

SearchNext == FT_Lookup

SpecSearch == SearchInit /\ [][SearchNext]_vars

\* the hits whose slug or title holds each of the first two words of the name
HoldingTwoWords(name, hits) ==
    LET words == Words(Lower(name), 1, "")
    IN  {i \in 1..Len(hits) :
            /\ Len(words) >= 2
            /\ \A w \in 1..2 : \/ Contains(Lower(Get(hits[i], "title", "")), words[w])
                               \/ Contains(Lower(Get(hits[i], "slug", "")), words[w])}

\* the search for the k-th add-on, entry i of the log, came back with hits of
\* which none matches exactly or by containment
FallbackCase(i, k) ==
    /\ ftLog[i].call = "search" /\ ftLog[i].out = "ok"
    /\ ftLog[i].key = Key(client_mods[k].name)
    /\ \A hits \in ftHitLists : hits # <<>> /\ CloseHits(client_mods[k].name, hits) = {}

\* C21, as claimed: after a search for a name of two or more words of which
\* no hit matches exactly or by containment, the first hit whose slug or
\* title holds the first two words of the name is the best hit: its project
\* is fetched next.
C21_TwoWordFallback ==
    \A i \in 1..Len(ftLog), k \in 1..Len(client_mods) :
        (/\ FallbackCase(i, k)
         /\ \A hits \in ftHitLists : HoldingTwoWords(client_mods[k].name, hits) # {})
        => /\ i < Len(ftLog)
           /\ ftLog[i + 1].call = "project"
           /\ \E hits \in ftHitLists :
                ftLog[i + 1].path
                    = hits[First(HoldingTwoWords(client_mods[k].name, hits))].project_id

\* C21, what holds: after such a search a project is fetched only for a name
\* whose words something other than a blank separates; line 472 has taken the
\* blanks out of the name before line 484 splits it.
C21_FallbackNeedsOtherSeparator ==
    \A i \in 1..Len(ftLog), k \in 1..Len(client_mods) :
        (FallbackCase(i, k) /\ i < Len(ftLog) /\ ftLog[i + 1].call = "project")
        => /\ Len(SearchWords(client_mods[k].name)) >= 2
           /\ Contains(client_mods[k].name, "\t")

\* C21: the search for "Thing Other" came back with the hit "Other Thing" and
\* no project was fetched
C21_FallbackSkipped ==
    \E i \in 1..Len(ftLog), k \in 1..Len(client_mods) :
        /\ FallbackCase(i, k)
        /\ client_mods[k].name = "Thing Other"
        /\ \A hits \in ftHitLists : HoldingTwoWords("Thing Other", hits) = {1}
        /\ ftIdx > k
        /\ \A j \in 1..Len(ftLog) : ftLog[j].call # "project"

\* C21: the fallback chose a hit for a name with a tab between its words
C21_FallbackTaken ==
    \E i \in 1..Len(ftLog), k \in 1..Len(client_mods) :
        /\ FallbackCase(i, k) /\ i < Len(ftLog) /\ ftLog[i + 1].call = "project"
        /\ ftLog[i + 1].path = "QWFABR01"


(***************************************************************************)
(* The availability probe of the generative service (SpecCaches)           *)
(***************************************************************************)
\* OLLAMA_MODEL.split(":")[0]
BaseModel == SubSeq(OLLAMA_MODEL, 1, Find(OLLAMA_MODEL, ":") - 1)

\* the answer of /api/tags lists the expected model, in the generator
TagsListExpected ==
    /\ aiTags.kind = "models"
    /\ \E i \in 1..Len(aiTags.models) : Contains(aiTags.models[i], BaseModel)

\* the probe of the data fetcher before entry i of the log listed the expected model
ProbeListedExpected(i) ==
    \E j \in 1..(i - 1) :
        /\ ftLog[j].call = "probe" /\ ftLog[j].out = "ok"
        /\ \E n \in 1..Len(ftLog[j].models) :
              Contains(Get(ftLog[j].models[n], "name", ""), BaseModel)

\* the data fetcher sends a generate request only after such a probe
FetchGeneratesWithModel ==
    \A i \in 1..Len(ftLog) :
        ftLog[i].call \in {"generate", "generate_pack"} => ProbeListedExpected(i)

\* C22, as claimed: in both entry points a generate request is sent only
\* when /api/tags answered and listed the expected model.
C22_GenerateOnlyWithModel ==
    /\ aiGenerates > 0 => TagsListExpected
    /\ FetchGeneratesWithModel

\* C22, what holds: the data fetcher sends a generate request only after
\* /api/tags listed the expected model; the generator sends one as soon as
\* /api/tags listed any model (line 288: _ollama_ok = len(models) > 0).
C22_GenerateOnlyWithAnyModel ==
    /\ aiGenerates > 0 => aiTags.kind = "models" /\ Len(aiTags.models) > 0
    /\ FetchGeneratesWithModel

\* C22: the generator had a record generated although /api/tags listed
\* "llama3:8b" only
C22_OtherModelAsked ==
    /\ aiProbes = 1 /\ aiGenerates > 0
    /\ aiTags = [kind |-> "models", models |-> <<"llama3:8b">>]

\* C22: the data fetcher found only "llama3:8b" listed and went on without
\* a generate request, leaving an add-on without record
C22_FetchOtherModel ==
    /\ ftPc = "saved"
    /\ \E j \in 1..Len(ftLog) :
          /\ ftLog[j].call = "probe" /\ ftLog[j].out = "ok"
          /\ ftLog[j].models = <<[name |-> "llama3:8b"]>>
    /\ ~has_ollama
    /\ \E k \in 1..Len(AllMods) : Key(AllMods[k].name) \notin DOMAIN ftData.mods

\* C22: the data fetcher sent a generate request
C22_FetchGenerated ==
    \E i \in 1..Len(ftLog) : ftLog[i].call = "generate" /\ ProbeListedExpected(i)


(***************************************************************************)
(* The fields of a generated response (SpecCaches)                         *)
(***************************************************************************)
RequiredFields == {"desc", "side", "req"}

\* the last call of ai_get_mod_info had an object generated that lacks some
\* of the fields
LacksOf(fields) == aiLast.fields # {} /\ fields \ aiLast.fields # {}

\* entry i of the log of the data fetcher is the last generate request for its
\* key, and the object that came back lacks some of the fields
FetchLacksOf(i, fields) ==
    /\ ftLog[i].call = "generate"
    /\ ftLog[i].fields # {} /\ fields \ ftLog[i].fields # {}
    /\ \A j \in (i + 1)..Len(ftLog) :
          ~(ftLog[j].call = "generate" /\ ftLog[j].key = ftLog[i].key)

\* nothing generated is stored under the key of entry i
NothingGeneratedFor(i) ==
    /\ ftLog[i].key \in DOMAIN ftData.mods
    /\ ftData.mods[ftLog[i].key].source # "ollama"

\* ai_get_mod_info returned nothing and the cache file has no record of the key
GeneratorTierFailed ==
    /\ aiLast.result = PyNone
    /\ aiLast.key \notin DOMAIN CachedMods(aiCacheFile)

\* C23, as claimed: a generated object that lacks one of desc, side and req
\* gives no record, in ai_get_mod_info and in ollama_mod_info, and nothing of
\* it is stored; an object with the three fields gives a record whose side
\* and req are of the enumerations.
C23_MissingFieldFails ==
    /\ LacksOf(RequiredFields) => GeneratorTierFailed
    /\ (aiLast.fields # {} /\ ~LacksOf(RequiredFields))
           => /\ aiLast.result # PyNone
              /\ aiLast.result["side"] \in VALID_SIDES /\ aiLast.result["req"] \in VALID_REQS
    /\ \A i \in 1..Len(ftLog) : FetchLacksOf(i, RequiredFields) => NothingGeneratedFor(i)

\* C23, what holds: ai_get_mod_info requires the three fields, ollama_mod_info
\* only desc (line 241); an object with desc and without side or req is
\* stored with the side of the scan and "optional".
C23_DescRequiredInFetch ==
    /\ LacksOf(RequiredFields) => GeneratorTierFailed
    /\ \A i \in 1..Len(ftLog) :
          /\ FetchLacksOf(i, {"desc"}) => NothingGeneratedFor(i)
          /\ (FetchLacksOf(i, RequiredFields) /\ ~FetchLacksOf(i, {"desc"}))
                => /\ ftData.mods[ftLog[i].key].source = "ollama"
                   /\ ftData.mods[ftLog[i].key].req = "optional"
                   /\ ftData.mods[ftLog[i].key].side \in {"client", "server"}

\* C23: the data fetcher saved a record made of the object {"desc": "A mod."}
C23_PartialAccepted ==
    /\ ftPc = "saved"
    /\ \E i \in 1..Len(ftLog) :
          /\ FetchLacksOf(i, RequiredFields) /\ ftLog[i].fields = {"desc"}
          /\ ftOutput.kind = "object"
          /\ ftOutput.data.mods[ftLog[i].key].source = "ollama"

\* C23: ai_get_mod_info had an object without req generated and returned nothing
C23_GeneratorRejected == LacksOf({"req"}) /\ aiLast.result = PyNone

\* C23: ai_get_mod_info had side "sideways" and req "maybe" generated
\* and returned the record with the side of the scan and "optional"
C23_Coerced ==
    /\ aiLast.fields = RequiredFields
    /\ aiLast.result # PyNone
    /\ aiLast.result["side"] \in {"client", "server"} /\ aiLast.result["req"] = "optional"


(***************************************************************************)
(* When results reach the disk (SpecCaches)                                *)
(***************************************************************************)
\* the records of the file mod_data.json
SavedMods == IF ftOutput.kind = "object" THEN Get(ftOutput.data, "mods", <<>>) ELSE <<>>

\* the keys under which the step put a record of the registry or of the
\* generative service into data["mods"]
Obtained ==
    {key \in DOMAIN ftData'.mods :
        /\ key \notin DOMAIN ftData.mods \/ ftData'.mods[key] # ftData.mods[key]
        /\ ftData'.mods[key].source \in {"modrinth", "ollama"}}

\* a call of ai_get_mod_info had a record generated
GeneratedRecord == aiGenerates' = aiGenerates + 1 /\ aiLast'.result # PyNone

\* the record is in the cache file after the call, unless writing the file
\* failed and left it as it was
CachedUnlessWriteFailed ==
    \/ /\ aiLast'.key \in DOMAIN CachedMods(aiCacheFile')
       /\ CachedMods(aiCacheFile')[aiLast'.key] = aiLast'.result
    \/ aiCacheFile' = aiCacheFile

\* C24, as claimed: a step that obtained a record from the registry or from
\* the generative service leaves it in the file on disk, in ai_get_mod_info
\* and in the main of the data fetcher, so a later abort loses none of them.
C24_WrittenThrough ==
    [][/\ GeneratedRecord => CachedUnlessWriteFailed
       /\ ftPc \in {"batch", "missing", "ollama"} /\ ftPc' # "raised"
             => \A key \in Obtained :
                   key \in DOMAIN SavedMods' /\ SavedMods'[key] = ftData'.mods[key]]_vars

\* C24, what holds: ai_get_mod_info writes the cache file after each
\* generated record; the data fetcher writes mod_data.json in its last step
\* only (line 573).
C24_SavedAtTheEnd ==
    [][/\ GeneratedRecord => CachedUnlessWriteFailed
       /\ ftOutput' # ftOutput => ftPc = "save" /\ ftPc' = "saved"]_vars

\* C24: the data fetcher was ended by an exception after it had obtained a
\* record from the registry, and the file does not hold that record
C24_ResultsLost ==
    /\ ftPc = "raised"
    /\ ftData # <<>>
    /\ \E key \in DOMAIN ftData.mods :
          /\ ftData.mods[key].source = "modrinth"
          /\ key \notin DOMAIN SavedMods
          /\ \E i \in 1..Len(ftLog) : ftLog[i].call \in {"batch", "slug", "project"}

\* C24: the generator has a generated record in its cache file while the scan
\* is still going on
C24_GeneratorWritten ==
    /\ mdPc \in {"client", "server"}
    /\ aiGenerates > 0 /\ ~aiLast.hit /\ aiLast.result # PyNone
    /\ aiLast.key \in DOMAIN CachedMods(aiCacheFile)
    /\ CachedMods(aiCacheFile)[aiLast.key] = aiLast.result


(***************************************************************************)
(* _modrinth_get and the clock (SpecThrottle).  Time is counted in ticks   *)
(* of an eighth of a second; the clock does not go back.  What takes time: *)
(* the caller between two calls, time.sleep, urlopen until the response or *)
(* the error arrives, and resp.read() with json.loads.                     *)
(***************************************************************************)
\* 0.25 s (lines 109-110)
Quarter == 2

\* no step takes more than MaxDelay ticks, and _modrinth_get is called
\* MaxCalls times
MaxDelay == 2

MaxCalls == 3

\* a mutant of SleepFor: no pause
SleepNever(elapsed) == 0

\* lines 109-110: the argument of time.sleep, 0 without a pause
SleepFor(elapsed) == IF elapsed < Quarter THEN Quarter - elapsed ELSE 0

\* the process starts; _last_modrinth_call = 0.0 (line 101) lies far back
TH_Init ==
    /\ thNow = Quarter
    /\ thLast = 0
    /\ thSent = NoTime
    /\ thPrevSent = NoTime
    /\ thDone = NoTime
    /\ thCalls = 0
    /\ thPc = "idle"

\* lines 107-113: the caller comes to its next call after e ticks; the pause,
\* which may last over ticks longer than asked for; the request is sent
TH_Call ==
    /\ thPc = "idle"
    /\ thCalls < MaxCalls
    /\ \E e \in 0..MaxDelay, over \in 0..1 :
          LET called == thNow + e
              pause  == SleepFor(called - thLast)
              sent   == called + pause + (IF pause > 0 THEN over ELSE 0)
          IN  /\ thNow' = sent
              /\ thSent' = sent
    /\ thPrevSent' = thSent
    /\ thCalls' = thCalls + 1
    /\ thPc' = "sent"
    /\ UNCHANGED <<thLast, thDone>>
    /\ UNCHANGED exceptTh

\* lines 115-117 and 119-122: urlopen gives the response, or raises
TH_Open ==
    /\ thPc = "sent"
    /\ \E d \in 0..MaxDelay : thNow' = thNow + d
    /\ thLast' = thNow'
    /\ \/ thPc' = "reading" /\ UNCHANGED thDone
       \/ thPc' = "idle" /\ thDone' = thNow'
    /\ UNCHANGED <<thSent, thPrevSent, thCalls>>
    /\ UNCHANGED exceptTh

\* lines 118 and 119-122: the body is read and parsed, or that raises
TH_Read ==
    /\ thPc = "reading"
    /\ \E d \in 0..MaxDelay : thNow' = thNow + d
    /\ thDone' = thNow'
    /\ \/ UNCHANGED thLast
       \/ thLast' = thNow'
    /\ thPc' = "idle"
    /\ UNCHANGED <<thSent, thPrevSent, thCalls>>
    /\ UNCHANGED exceptTh

ThrottleInit ==
    TH_Init /\ SP_Idle /\ GR_Idle /\ MD_Idle /\ PL_Idle /\ FT_Idle /\ LK_Idle /\ CF_Idle

ThrottleNext == TH_Call \/ TH_Open \/ TH_Read

SpecThrottle == ThrottleInit /\ [][ThrottleNext]_vars

\* a request was just sent
JustSent == thPc = "sent"

\* a call has returned and the next has not begun
Returned == thPc = "idle" /\ thDone # NoTime

\* C25, as claimed: a request is never sent less than 0.25 s after the
\* last-call timestamp, every call leaves the time of its return in the
\* timestamp, and so a request is sent at least 0.25 s after the call before
\* it returned.
C25_GapAfterCompletion ==
    /\ JustSent => thSent - thLast >= Quarter
    /\ Returned => thLast = thDone
    /\ (JustSent /\ thDone # NoTime) => thSent - thDone >= Quarter

\* C25, amended: a request is never sent less than 0.25 s after the last-call
\* timestamp; every call sets the timestamp between sending its request and
\* returning (on success when the response arrives, before the body is read);
\* so two successive requests are sent at least 0.25 s apart.
C25_GapBetweenRequests ==
    /\ JustSent => thSent - thLast >= Quarter
    /\ Returned => thSent <= thLast /\ thLast <= thDone
    /\ (JustSent /\ thPrevSent # NoTime) => thSent - thPrevSent >= Quarter

\* C25: a call paused and sent its request 0.25 s after the request before
\* it, which is less than 0.25 s after the call before it had returned
\* from reading its response
C25_Witness ==
    /\ JustSent /\ thCalls >= 2
    /\ thSent - thPrevSent = Quarter
    /\ thSent - thLast = Quarter
    /\ thSent - thDone < Quarter


(***************************************************************************)
(* How often a request is sent for a key (SpecCaches)                      *)
(***************************************************************************)
\* the kinds of request sent per add-on
PerAddon == {"slug", "search", "project", "generate"}

\* the entries of the log with this kind of request for this key
RequestsFor(log, call, key) ==
    {i \in 1..Len(log) : log[i].call = call /\ log[i].key = key}

\* the add-ons of the two scans with this key
AddonsWith(key) == {k \in 1..Len(AllMods) : Key(AllMods[k].name) = key}

\* a call of ai_get_mod_info sent a generate request
GeneratorAsked == aiGenerates' = aiGenerates + 1

\* C26, as claimed: no kind of request is sent twice for one key in a run of
\* the data fetcher, and ai_get_mod_info does not send a generate request
\* for the key it sent one for in the call before.
C26_OncePerKey ==
    [][/\ \A i \in 1..Len(ftLog') :
             ftLog'[i].call \in PerAddon
                => RequestsFor(ftLog', ftLog'[i].call, ftLog'[i].key) = {i}
       /\ (GeneratorAsked /\ aiGenerates > 0 /\ ~aiLast.hit)
             => aiLast'.key # aiLast.key]_vars

\* C26, what holds: a kind of request is sent at most once for each add-on
\* of the scans, so at most as often for a key as add-ons have it.
C26_OncePerAddon ==
    \A i \in 1..Len(ftLog) :
        ftLog[i].call \in PerAddon
           => Cardinality(RequestsFor(ftLog, ftLog[i].call, ftLog[i].key))
                 <= Cardinality(AddonsWith(ftLog[i].key))

\* C26: the data fetcher sent two generate requests for one key, that of an
\* add-on found in the client index and on the server
C26_GeneratedTwice ==
    \E i \in 1..Len(ftLog) :
        /\ ftLog[i].call = "generate"
        /\ Cardinality(RequestsFor(ftLog, "generate", ftLog[i].key)) = 2
        /\ \E c \in 1..Len(client_mods), s \in 1..Len(server_mods) :
              /\ Key(client_mods[c].name) = ftLog[i].key
              /\ Key(server_mods[s].name) = ftLog[i].key

\* C26: the data fetcher sent the search twice for one key after the first
\* had failed
C26_SearchedTwice ==
    \E i \in 1..Len(ftLog) :
        /\ ftLog[i].call = "search" /\ ftLog[i].out = "fail"
        /\ Cardinality(RequestsFor(ftLog, "search", ftLog[i].key)) = 2

\* C26: the generator asked the service twice for one key, in the client
\* scan and in the server scan
C26_GeneratorAskedTwice ==
    /\ aiGenerates = 2 /\ aiCalls = 2
    /\ Len(clientMods) = 1
    /\ mdPc = "server" /\ mdIdx > 1
    /\ \E i \in 1..Len(serverFiles) : i < mdIdx /\ Key(ServerName(serverFiles[i])) = aiLast.key
    /\ Key(clientMods[1].name) = aiLast.key


(***************************************************************************)
(* Runs of the data fetcher one after the other (SpecRerun): the next run  *)
(* loads the mod_data.json the run before it saved                         *)
(***************************************************************************)
\* the number of runs
MaxRuns == 2

\* the entry of the log where a further run begins
RunStarted == [call |-> "main", key |-> "", out |-> "ok"]

\* the positions of the log where a further run began
Reruns == {i \in 1..Len(ftLog) : ftLog[i].call = "main"}

\* lines 375-385: main is started again, with the directories as they were
\* and the output file as the run before left it
FT_Again ==
    /\ ftPc \in {"saved", "raised"}
    /\ Cardinality(Reruns) + 1 < MaxRuns
    /\ ftData' = <<>>
    /\ client_mods' = <<>>
    /\ server_mods' = <<>>
    /\ ftMissing' = <<>>
    /\ ftPacks' = <<>>
    /\ ftIdx' = 1
    /\ has_ollama' = FALSE
    /\ ftLog' = Append(ftLog, RunStarted)
    /\ ftError' = ""
    /\ ftPc' = "load"
    /\ UNCHANGED <<ftOutput, ftInputs>>
    /\ UNCHANGED exceptFt

\* one add-on, in the client index or on the server
RerunDirs == {d \in AddonDirs : Len(d.index) + Len(d.server) = 1}

\* the first run finds no mod_data.json and no configuration files
RerunInit ==
    /\ ftOutput = Json("missing", <<>>)
    /\ \E d \in RerunDirs : ftIndexDir = d.index /\ ftServerDir = d.server
    /\ ftPackDir \in PackDirs
    /\ ftConfigDirs = [client |-> {}, server |-> {}]
    /\ ftHitLists = HitLists
    /\ ftData = <<>>
    /\ client_mods = <<>>
    /\ server_mods = <<>>
    /\ ftMissing = <<>>
    /\ ftPacks = <<>>
    /\ ftIdx = 1
    /\ has_ollama = FALSE
    /\ ftLog = <<>>
    /\ ftError = ""
    /\ ftPc = "load"
    /\ SP_Idle /\ GR_Idle /\ MD_Idle /\ PL_Idle /\ LK_Idle /\ TH_Idle /\ CF_Idle

RerunNext == FetchNext \/ FT_Again

SpecRerun == RerunInit /\ [][RerunNext]_vars

\* the requests of the network tiers for an add-on
NetworkTiers == {"slug", "search", "project", "generate"}

\* the positions of the log of the run that began at position r (0: the
\* first run)
RunOf(r) ==
    {i \in (r + 1)..Len(ftLog) : \A j \in Reruns : j <= r \/ j > i}

\* in the run that began at r every request sent for the key failed to give
\* a record: no registry record and no generated record was stored for it
AllFailedIn(r, key) ==
    /\ \E i \in RunOf(r) : ftLog[i].call \in {"slug", "search"} /\ ftLog[i].key = key
    /\ \A i \in RunOf(r) :
          (ftLog[i].key = key /\ ftLog[i].call \in NetworkTiers)
             => \/ ftLog[i].out = "fail"
                \/ ftLog[i].call = "slug" /\ ~ftLog[i].got
                \/ ftLog[i].call = "search"
                      /\ ~\E j \in RunOf(r) : ftLog[j].call = "project" /\ ftLog[j].key = key
                \/ ftLog[i].call = "generate" /\ "desc" \notin ftLog[i].fields

\* where the run that is under way began
LastRun == IF Reruns = {} THEN 0 ELSE CHOOSE r \in Reruns : \A j \in Reruns : j <= r

\* where the run before it began
RunBefore ==
    LET earlier == Reruns \ {LastRun}
    IN  IF earlier = {} THEN 0 ELSE CHOOSE r \in earlier : \A j \in earlier : j <= r

\* a further run went through all of its tiers and is about to save: the
\* output file is as the run before left it
NextRunDone == ftPc = "save" /\ Reruns # {}

\* the run that began at r sent a request for the k-th add-on: one of the
\* network tiers for its key, or the batch request with its identifier
LookedUpIn(r, k) ==
    \E i \in RunOf(r) :
       \/ ftLog[i].call \in NetworkTiers /\ ftLog[i].key = Key(AllMods[k].name)
       \/ /\ ftLog[i].call = "batch"
          /\ \E n \in 1..Len(ftLog[i].ids) : ftLog[i].ids[n] = AllMods[k].mid

\* C27, as claimed: an add-on whose lookups all failed in a run is looked up
\* again by the next run.
C27_FailedIsRetried ==
    NextRunDone
       => \A k \in 1..Len(AllMods) :
             AllFailedIn(RunBefore, Key(AllMods[k].name))
                => LookedUpIn(LastRun, k)

\* C27, what holds: the add-on is looked up again when the run left no
\* record under its key, which is so when the generative service was not
\* available to that run.
C27_RetriedWithoutRecord ==
    NextRunDone
       => \A k \in 1..Len(AllMods) :
             (/\ AllFailedIn(RunBefore, Key(AllMods[k].name))
              /\ Key(AllMods[k].name) \notin DOMAIN LoadedMods)
                => LookedUpIn(LastRun, k)

\* C27: a run stored the placeholder for an add-on no tier gave a
\* record for, and the next run sent no request for it
C27_PlaceholderKept ==
    /\ NextRunDone
    /\ \E k \in 1..Len(AllMods) :
          /\ AllFailedIn(RunBefore, Key(AllMods[k].name))
          /\ Key(AllMods[k].name) \in DOMAIN LoadedMods
          /\ LoadedMods[Key(AllMods[k].name)].source = "unknown"
          /\ ~LookedUpIn(LastRun, k)

\* C27: a run left no record and the next run looked the add-on
\* up again
C27_Retried ==
    /\ NextRunDone
    /\ \E k \in 1..Len(AllMods) :
          /\ AllFailedIn(RunBefore, Key(AllMods[k].name))
          /\ Key(AllMods[k].name) \notin DOMAIN LoadedMods
          /\ \E i \in RunOf(LastRun) : ftLog[i].call = "search" /\ ftLog[i].key = Key(AllMods[k].name)


(***************************************************************************)
(* The changed flag of a secret property (SpecSettings)                    *)
(***************************************************************************)
\* the entries of secret keys with a default, each with the value its line
\* holds in the file
SecretEntries ==
    {i \in 1..Len(spProps) :
        /\ PropKey(Strip(TakenKeyValueLines[i])) \in SECRET_PROPERTIES
        /\ PropKey(Strip(TakenKeyValueLines[i])) \in DOMAIN SERVER_DEFAULTS}

RealValue(i) == PropRawValue(Strip(TakenKeyValueLines[i]))

\* the flag of entry i is what comparing the value of the file with the
\* default gives
FlaggedOnRealValue(i) ==
    spProps[i].changed <=> RealValue(i) # SERVER_DEFAULTS[spProps[i].key]

\* C28, as claimed: the entry of a secret key is flagged by its real value
\* against the default, and its value is the placeholder whether it is
\* flagged or not.
C28_FlagThenRedact ==
    \A i \in SecretEntries :
        /\ FlaggedOnRealValue(i)
        /\ spProps[i].value = REDACTED

\* C28, amended: the value of a secret key is replaced by the placeholder
\* when it is not empty, and the flag compares the replaced value with the
\* default.  The default of every secret key is the empty string, so the flag
\* is the one the real value gives: an empty secret is listed unchanged with
\* the empty value, any other secret is listed changed with the placeholder.
C28_RedactThenFlag ==
    \A i \in SecretEntries :
        /\ spProps[i].value = (IF RealValue(i) = "" THEN "" ELSE REDACTED)
        /\ spProps[i].changed <=> spProps[i].value # SERVER_DEFAULTS[spProps[i].key]
        /\ SERVER_DEFAULTS[spProps[i].key] = ""
        /\ FlaggedOnRealValue(i)

\* C28, its case: a file with an empty secret and one with a real value has
\* been read; the first is listed unchanged and empty, the second changed
\* and replaced
C28_Witness ==
    /\ spPc = "done"
    /\ \E i, j \in SecretEntries :
          /\ RealValue(i) = "" /\ ~spProps[i].changed /\ spProps[i].value = ""
          /\ RealValue(j) = "s3cret" /\ spProps[j].changed /\ spProps[j].value = REDACTED


(***************************************************************************)
(* The side of the saved records against the scan that found the add-on    *)
(* (SpecFetch)                                                             *)
(***************************************************************************)
\* the mods mapping save_data is about to write (line 573); mod_data.json is
\* still what the run loaded
SavedByRun == IF ftPc = "save" THEN ftData.mods ELSE <<>>

\* the side a scan must not be given: "server" for the client index,
\* "client" for the server directory
OppositeOf(side) == IF side = "client" THEN "server" ELSE "client"

\* the add-ons whose saved record was not in mod_data.json before the run
StoredByRun ==
    {k \in 1..Len(AllMods) :
        /\ Key(AllMods[k].name) \in DOMAIN SavedByRun
        /\ \/ Key(AllMods[k].name) \notin DOMAIN LoadedMods
           \/ LoadedMods[Key(AllMods[k].name)] # SavedByRun[Key(AllMods[k].name)]}

\* C29, as claimed: no saved record of an add-on of the client scan has side
\* "server", none of an add-on of the server scan has side "client".
C29_SideAgreesWithScan ==
    \A k \in StoredByRun :
        SavedByRun[Key(AllMods[k].name)].side # OppositeOf(AllMods[k].side)

\* C29, what holds: the side of a saved record is that of its scan when no
\* tier gave one, in the placeholder and in a generated record without a
\* valid side; the scan is kept apart, as _side_hint, in a registry record.
C29_ScanSideWhenNoneGiven ==
    \A k \in StoredByRun :
        LET rec == SavedByRun[Key(AllMods[k].name)]
        IN  /\ rec.source = "unknown"
               => \E j \in 1..Len(AllMods) :
                     Key(AllMods[j].name) = Key(AllMods[k].name) /\ rec.side = AllMods[j].side
            /\ rec.source = "modrinth"
               => /\ \E j \in 1..Len(AllMods) :
                        /\ Key(AllMods[j].name) = Key(AllMods[k].name)
                        /\ rec._side_hint = AllMods[j].side
                  /\ \E i \in 1..Len(Projects) : rec.side = extract_modrinth_info(Projects[i]).side
            /\ rec.side \in VALID_SIDES

\* C29: the search stored a registry record with side "server" for an add-on
\* of the client index (reached under SpecSearch)
C29_RegistryServerForClient ==
    \E k \in 1..Len(client_mods) :
        /\ Key(client_mods[k].name) \in DOMAIN ftData.mods
        /\ ftData.mods[Key(client_mods[k].name)].source = "modrinth"
        /\ ftData.mods[Key(client_mods[k].name)].side = "server"
        /\ ftData.mods[Key(client_mods[k].name)]._side_hint = "client"

\* C29: a generated record with side "server" was saved for an add-on of the
\* client index
C29_GeneratedServerForClient ==
    \E k \in StoredByRun :
        /\ AllMods[k].side = "client"
        /\ \A j \in 1..Len(AllMods) : Key(AllMods[j].name) = Key(AllMods[k].name) => j = k
        /\ SavedByRun[Key(AllMods[k].name)].source = "ollama"
        /\ SavedByRun[Key(AllMods[k].name)].side = "server"

\* C29: a placeholder with the side of the scan was saved
C29_PlaceholderOfScan ==
    \E k \in StoredByRun :
        /\ SavedByRun[Key(AllMods[k].name)] = Placeholder(AllMods[k].name, AllMods[k].side)


(***************************************************************************)
(* The privilege flags of a player record (SpecPlayers)                    *)
(***************************************************************************)
\* lines 823-829: the set built from whitelist.json, the uuid and the
\* lowercased name of each entry, the same in every run; nothing reads it
whitelisted ==
    {"0a1b2c3d-0000-4000-8000-000000000001", "steve",
     "0a1b2c3d-0000-4000-8000-00000000000f", "alex"}

\* the player is on the allow-list by uuid or by lowercased name
AllowListed(p) == p.uuid \in whitelisted \/ Lower(p.name) \in whitelisted

\* lines 945-963: the fields of a record that hold a name, an identifier or
\* a counter; the fields left out of the records here are dates, counters
\* and formatted counters as well
DataFields == {"name", "uuid", "play_time", "deaths"}

\* the fields of a record that are neither data nor is_op: further flags
FlagsOf(p) == DOMAIN p \ (DataFields \cup {"is_op"})

\* C30, as claimed: every record collect_players builds has, next to is_op, a
\* flag that is true iff the uuid or the lowercased name is on the allow-list,
\* and is_op is true iff the uuid is on the list of operators.
C30_AllowListedFlag ==
    \A i \in 1..Len(plJoined) :
        /\ plJoined[i].is_op <=> plJoined[i].uuid \in ops
        /\ \E f \in FlagsOf(plJoined[i]) : plJoined[i][f] <=> AllowListed(plJoined[i])

\* C30, what holds: is_op is true iff the uuid is on the list of operators,
\* and it is the only flag of a record.
C30_OpFlagOnly ==
    \A i \in 1..Len(plJoined) :
        /\ plJoined[i].is_op <=> plJoined[i].uuid \in ops
        /\ FlagsOf(plJoined[i]) = {}

\* C30: two records were built that differ in uuid only, of a player on the
\* allow-list and of one who is not
C30_SameRecordOnAndOff ==
    \E i, j \in 1..Len(plJoined) :
        /\ AllowListed(plJoined[i]) /\ ~AllowListed(plJoined[j])
        /\ [plJoined[i] EXCEPT !.uuid = ""] = [plJoined[j] EXCEPT !.uuid = ""]

\* C30: the record of an operator who is not on the allow-list was built
C30_OpNotAllowListed ==
    \E i \in 1..Len(plJoined) : plJoined[i].is_op /\ ~AllowListed(plJoined[i])

=============================================================================
